---- MODULE Spec2Model ----
(***************************************************************************)
(* Stock-day ledger and cash reconciliation of the gas agency backend.     *)
(* The relational tables are the state; every service method is one        *)
(* action that runs inside one database session: what it executes before   *)
(* db.commit() is kept only if the commit is reached, an exception raised  *)
(* before the commit discards it (the session is closed by get_db).        *)
(***************************************************************************)
EXTENDS Integers, Sequences, FiniteSets, TLC

\* ------------------------------------------------------------- bounds
\* Calendar dates are 1..MaxDate.
MaxDate == 3
\* Largest quantity or amount of one request entry.
MaxQty == 1
\* Number of committed requests explored.
MaxOps == 3

\* ------------------------------------------------------------ catalog
\* cylinder_types rows (id and cylinder_type_id name the same key).
cylinder_types ==
    { [id |-> 1, name |-> "14.2KG", category |-> "DOMESTIC",   is_active |-> TRUE,  display_order |-> 1],
      [id |-> 2, name |-> "19KG",   category |-> "COMMERCIAL", is_active |-> TRUE,  display_order |-> 2],
      [id |-> 3, name |-> "5KG",    category |-> "DOMESTIC",   is_active |-> FALSE, display_order |-> 3] }

\* delivery_boys rows of the deployed roster (id and delivery_boy_id name the same
\* key); "Office" is the virtual agent holding office stock.
Roster ==
    { [id |-> 1, name |-> "Ravi",   is_active |-> TRUE],
      [id |-> 2, name |-> "Mohan",  is_active |-> TRUE],
      [id |-> 3, name |-> "Office", is_active |-> TRUE] }

\* price_nc_components rows, one per cylinder type.
price_nc_components ==
    { [cylinder_type_id |-> 1, deposit_amount |-> 5, refill_amount |-> 9,
       document_charge |-> 1, installation_charge |-> 2, regulator_charge |-> 3],
      [cylinder_type_id |-> 2, deposit_amount |-> 5, refill_amount |-> 9,
       document_charge |-> 1, installation_charge |-> 2, regulator_charge |-> 3],
      [cylinder_type_id |-> 3, deposit_amount |-> 4, refill_amount |-> 6,
       document_charge |-> 1, installation_charge |-> 2, regulator_charge |-> 3] }

\* The calendar dates a request may carry.
Dates == 1..MaxDate

\* Column default of the numeric columns an INSERT leaves out.
ColumnDefault == 0

VARIABLES
    delivery_boys,                \* the roster table, read only
    stock_days,                   \* sequence of rows; stock_day_id is the index
    daily_stock_summary,          \* sequence of rows (no key is enforced by the code)
    delivery_issues,              \* set of rows, unique per (day, boy, type, source)
    delivery_expected_amount,     \* set of rows, unique per (day, boy)
    delivery_cash_deposit,        \* set of rows, unique per (day, boy)
    delivery_cash_balance,        \* function delivery_boy_id -> row
    delivery_vehicle_empty_stock, \* set of rows, unique per (day, boy, type)
    result,                       \* outcome of the last request
    nops,                         \* committed requests so far
    balance_calls,                \* update_delivery_boy_balances calls under way and served
    create_calls                  \* create_stock_day calls under way

tables == <<stock_days, daily_stock_summary, delivery_issues, delivery_expected_amount,
            delivery_cash_deposit, delivery_cash_balance, delivery_vehicle_empty_stock>>
vars == <<delivery_boys, stock_days, daily_stock_summary, delivery_issues, delivery_expected_amount,
          delivery_cash_deposit, delivery_cash_balance, delivery_vehicle_empty_stock,
          result, nops, balance_calls, create_calls>>

\* ------------------------------------------------------------ helpers
Min(S) == CHOOSE x \in S : \A y \in S : x <= y

RECURSIVE SumSet(_, _)
\* SUM(f) over the rows of the set S; f is a function on S.
SumSet(S, f) ==
    IF S = {} THEN 0
    ELSE LET r == CHOOSE x \in S : TRUE IN f[r] + SumSet(S \ {r}, f)

\* SELECT ... FROM stock_days WHERE stock_date = :date, fetchone(): the id, 0 for no row.
DayByDate(days, d) ==
    LET ids == { i \in DOMAIN days : days[i].stock_date = d }
    IN IF ids = {} THEN 0 ELSE Min(ids)

\* WHERE stock_date < :date ORDER BY stock_date DESC LIMIT 1: the id, 0 for no row.
LatestBefore(days, d, ids) ==
    LET before == { i \in ids : days[i].stock_date < d }
    IN IF before = {} THEN 0
       ELSE CHOOSE i \in before : \A j \in before : days[j].stock_date <= days[i].stock_date

\* create_stock_day's previous day: the latest earlier day whatever its status.
PrevDay(days, d) == LatestBefore(days, d, DOMAIN days)

\* initialize_opening_stock's previous day: the latest earlier CLOSED day.
PrevClosedDay(days, d) ==
    LatestBefore(days, d, { i \in DOMAIN days : days[i].status = "CLOSED" })

\* SELECT id FROM cylinder_types WHERE name = :name [AND is_active = TRUE]: the id, 0 for no row.
CylinderByName(n, activeOnly) ==
    LET rows == { c \in cylinder_types : c.name = n /\ (activeOnly => c.is_active) }
    IN IF rows = {} THEN 0 ELSE (CHOOSE c \in rows : TRUE).id

\* SELECT id FROM delivery_boys WHERE name = :name [AND is_active = TRUE]: the id, 0 for no row.
BoyByName(n, activeOnly) ==
    LET rows == { b \in delivery_boys : b.name = n /\ (activeOnly => b.is_active) }
    IN IF rows = {} THEN 0 ELSE (CHOOSE b \in rows : TRUE).id

CylinderName(id) == (CHOOSE c \in cylinder_types : c.id = id).name

\* The outcome of a request: the operation, its date, the error raised ("OK" for
\* none), what the answer carries (the names of an error message, the data of a
\* response) and whether the request before it was the same operation on the same date.
Outcome(op, d, err, detail) ==
    [op |-> op, stock_date |-> d, error |-> err, detail |-> detail,
     repeated |-> (result.op = op /\ result.stock_date = d)]

\* The outcome of the request served last before the runs explored begin.
FirstOutcome(op, d) ==
    [op |-> op, stock_date |-> d, error |-> "OK", detail |-> <<>>, repeated |-> FALSE]

\* The errors raised after db.commit(), and "OK": the request's writes are stored.
Committed == {"OK", "NegativeStock"}

\* A request that raises before db.commit() leaves every table as it was, so the
\* requests that may follow it are those that may follow the state before it: the
\* runs explored end at the first such request.
Ready == result.error \in Committed

\* A request that raises before db.commit(): nothing it executed is kept.
Raise(op, d, err, detail) ==
    /\ result' = Outcome(op, d, err, detail)
    /\ UNCHANGED <<delivery_boys, tables, nops, balance_calls, create_calls>>

\* db.commit() reached. The dates update_delivery_boy_balances was served for are
\* kept on record.
Commit(op, d, err, detail) ==
    /\ nops < MaxOps
    /\ nops' = nops + 1
    /\ result' = Outcome(op, d, err, detail)
    /\ balance_calls' =
         [balance_calls EXCEPT
            !.rolled = IF op = "update_delivery_boy_balances" THEN @ \cup {d} ELSE @]
    /\ UNCHANGED <<delivery_boys, create_calls>>

\* What get_db's close() does with a session that raised before db.commit(): the
\* writes flushed so far are dropped. The outcome notes whether there were any.
Discarded(pending) == IF pending THEN <<"discarded">> ELSE <<>>

\* ---------------------------------------------------------------- Init
\* The two callers that may have a request under way at the same time.
Callers == {"A", "B"}

\* No call under way and none served yet: requests are served one at a time.
NoCalls ==
    [at |-> [s \in Callers |-> "done"], stock_date |-> [s \in Callers |-> 0],
     interleaved |-> FALSE, rolled |-> {}]

\* No create_stock_day call under way.
NoCreates ==
    [at |-> [s \in Callers |-> "done"], stock_date |-> [s \in Callers |-> 0],
     interleaved |-> FALSE]

InitWith(roster) ==
    /\ delivery_boys = roster
    /\ stock_days = <<>>
    /\ daily_stock_summary = <<>>
    /\ delivery_issues = {}
    /\ delivery_expected_amount = {}
    /\ delivery_cash_deposit = {}
    /\ delivery_cash_balance =
         [b \in { x.id : x \in roster } |->
            [opening_balance |-> 0, today_expected |-> 0, today_deposited |-> 0,
             closing_balance |-> 0, balance_status |-> "SETTLED"]]
    /\ delivery_vehicle_empty_stock = {}
    /\ result = FirstOutcome("none", 0)
    /\ nops = 0
    /\ balance_calls = NoCalls
    /\ create_calls = NoCreates

Init == InitWith(Roster)

\* ------------------------------------------------- day lifecycle (steps 1, 8)
\* Variant refuted by C3: an existence check that sees OPEN days only.
OpenDayExists(days, d) ==
    \E i \in DOMAIN days : days[i].stock_date = d /\ days[i].status = "OPEN"

\* The existence check of create_stock_day.
DayExists(days, d) == DayByDate(days, d) # 0

\* Variant refuted by C2: a previous-day check that also asks for the day before d.
PreviousDayNotAdjacentClosed(days, d) ==
    LET prev == PrevDay(days, d)
    IN prev # 0 /\ (days[prev].status # "CLOSED" \/ days[prev].stock_date + 1 # d)

\* The previous-day check of create_stock_day.
PreviousDayNotClosed(days, d) ==
    LET prev == PrevDay(days, d)
    IN prev # 0 /\ days[prev].status # "CLOSED"

\* INSERT INTO stock_days (stock_date, status) VALUES (:date, 'OPEN').
InsertStockDay(days, d) ==
    Append(days, [stock_date |-> d, status |-> "OPEN", closed_at |-> FALSE])

create_stock_day(d) ==
    IF DayExists(stock_days, d)
    THEN Raise("create_stock_day", d, "DayAlreadyExists", <<>>)
    ELSE IF PreviousDayNotClosed(stock_days, d)
    THEN Raise("create_stock_day", d, "PreviousDayNotClosed", <<>>)
    ELSE /\ Commit("create_stock_day", d, "OK", <<>>)
         /\ stock_days' = InsertStockDay(stock_days, d)
         /\ UNCHANGED <<daily_stock_summary, delivery_issues, delivery_expected_amount,
                        delivery_cash_deposit, delivery_cash_balance,
                        delivery_vehicle_empty_stock>>

\* One statement of a create_stock_day call under way, executed on the table as the
\* other caller's commit left it: the SELECTs take no lock, the code none of its own.
\* A call that raises goes to "raised" and writes nothing.
CreateStatement(s, pc, next, err, days) ==
    /\ create_calls.at[s] = pc
    /\ stock_days' = days
    /\ create_calls' =
         [create_calls EXCEPT
            !.at[s] = next,
            !.interleaved = @ \/ \E o \in Callers \ {s} :
                                   create_calls.at[o] \in {"previous", "insert"}]
    /\ result' = IF next \in {"done", "raised"}
                 THEN Outcome("create_stock_day", create_calls.stock_date[s], err, <<>>)
                 ELSE result
    /\ UNCHANGED <<delivery_boys, daily_stock_summary, delivery_issues,
                   delivery_expected_amount, delivery_cash_deposit, delivery_cash_balance,
                   delivery_vehicle_empty_stock, nops, balance_calls>>

\* SELECT stock_day_id FROM stock_days WHERE stock_date = :date, and the raise on a row.
select_existing(s) ==
    IF DayExists(stock_days, create_calls.stock_date[s])
    THEN CreateStatement(s, "existing", "raised", "DayAlreadyExists", stock_days)
    ELSE CreateStatement(s, "existing", "previous", "OK", stock_days)

\* SELECT ... WHERE stock_date < :date ORDER BY stock_date DESC LIMIT 1, and the raise
\* on a row that is not CLOSED.
select_prev_day(s) ==
    IF PreviousDayNotClosed(stock_days, create_calls.stock_date[s])
    THEN CreateStatement(s, "previous", "raised", "PreviousDayNotClosed", stock_days)
    ELSE CreateStatement(s, "previous", "insert", "OK", stock_days)

\* INSERT INTO stock_days ... and db.commit().
insert_stock_day(s) ==
    CreateStatement(s, "insert", "done", "OK",
                    InsertStockDay(stock_days, create_calls.stock_date[s]))
\* Variant refuted by C5: the UPDATE without its WHERE clause.
UpdateClosedAll(days, id) ==
    [i \in DOMAIN days |-> [days[i] EXCEPT !.status = "CLOSED", !.closed_at = TRUE]]

\* UPDATE stock_days SET status = 'CLOSED', closed_at = CURRENT_TIMESTAMP WHERE stock_day_id = :id.
UpdateClosed(days, id) ==
    [i \in DOMAIN days |->
        IF i = id THEN [days[i] EXCEPT !.status = "CLOSED", !.closed_at = TRUE]
        ELSE days[i]]

\* Variant refuted by C4: a close_day that reopens a CLOSED day instead of raising.
close_or_reopen_day(d) ==
    LET day == DayByDate(stock_days, d) IN
    IF day = 0
    THEN Raise("close_day", d, "DayNotFound", <<>>)
    ELSE /\ Commit("close_day", d, "OK", <<>>)
         /\ stock_days' =
              [stock_days EXCEPT ![day].status = IF @ = "CLOSED" THEN "OPEN" ELSE "CLOSED"]
         /\ UNCHANGED <<daily_stock_summary, delivery_issues, delivery_expected_amount,
                        delivery_cash_deposit, delivery_cash_balance,
                        delivery_vehicle_empty_stock>>

close_day(d) ==
    LET day == DayByDate(stock_days, d) IN
    IF day = 0
    THEN Raise("close_day", d, "DayNotFound", <<>>)
    ELSE IF stock_days[day].status = "CLOSED"
    THEN Raise("close_day", d, "BusinessException", <<>>)
    ELSE /\ Commit("close_day", d, "OK", <<>>)
         /\ stock_days' = UpdateClosed(stock_days, day)
         /\ UNCHANGED <<daily_stock_summary, delivery_issues, delivery_expected_amount,
                        delivery_cash_deposit, delivery_cash_balance,
                        delivery_vehicle_empty_stock>>


\* ------------------------------------------------ opening stock (step 2)
RECURSIVE SortedSeq(_)
\* The members of a set of numbers in ascending order.
SortedSeq(S) ==
    IF S = {} THEN <<>>
    ELSE LET m == Min(S) IN <<m>> \o SortedSeq(S \ {m})

\* A daily_stock_summary row as an INSERT naming only the opening columns leaves it.
SummaryRow(day_id, ct_id, filled, empty, defective, total) ==
    [stock_day_id |-> day_id, cylinder_type_id |-> ct_id,
     opening_filled |-> filled, opening_empty |-> empty,
     item_receipt |-> ColumnDefault, item_return |-> ColumnDefault,
     sales_regular |-> ColumnDefault, nc_qty |-> ColumnDefault, dbc_qty |-> ColumnDefault,
     tv_out_qty |-> ColumnDefault,
     closing_filled |-> ColumnDefault, closing_empty |-> ColumnDefault,
     defective_empty_vehicle |-> defective, total_stock |-> total]

\* Variant refuted by C8: a carry-forward of the previous day's opening figures.
CarryOpeningRow(curr_id, prev) ==
    SummaryRow(curr_id, prev.cylinder_type_id, prev.opening_filled, prev.opening_empty,
               prev.defective_empty_vehicle,
               prev.opening_filled + prev.opening_empty + prev.defective_empty_vehicle)

\* The row INSERT ... SELECT derives from one row of the previous day.
CarryForwardRow(curr_id, prev) ==
    SummaryRow(curr_id, prev.cylinder_type_id, prev.closing_filled, prev.closing_empty,
               prev.defective_empty_vehicle,
               prev.closing_filled + prev.closing_empty + prev.defective_empty_vehicle)

\* INSERT ... SELECT ... FROM daily_stock_summary prev WHERE prev.stock_day_id = :prev_id.
CopyClosingAsOpening(dss, curr_id, prev_id) ==
    LET prevRows == SelectSeq(dss, LAMBDA r : r.stock_day_id = prev_id)
    IN dss \o [i \in DOMAIN prevRows |-> CarryForwardRow(curr_id, prevRows[i])]

\* Variant refuted by C32: zero rows for every cylinder type, inactive ones included.
InsertZeroRowsAllTypes(dss, curr_id) ==
    LET ids == SortedSeq({ c.id : c \in cylinder_types })
    IN dss \o [i \in DOMAIN ids |->
                 SummaryRow(curr_id, ids[i], ColumnDefault, ColumnDefault,
                            ColumnDefault, ColumnDefault)]
\* INSERT ... SELECT :stock_day_id, cylinder_type_id FROM cylinder_types WHERE is_active = TRUE.
InsertZeroRows(dss, curr_id) ==
    LET ids == SortedSeq({ c.id : c \in { x \in cylinder_types : x.is_active } })
    IN dss \o [i \in DOMAIN ids |->
                 SummaryRow(curr_id, ids[i], ColumnDefault, ColumnDefault,
                            ColumnDefault, ColumnDefault)]

initialize_opening_stock(d) ==
    LET curr == DayByDate(stock_days, d)
        prev == PrevClosedDay(stock_days, d)
    IN
    IF curr = 0
    THEN Raise("initialize_opening_stock", d, "DayNotFound", <<>>)
    ELSE IF stock_days[curr].status # "OPEN"
    THEN Raise("initialize_opening_stock", d, "DayNotOpen", <<>>)
    ELSE /\ Commit("initialize_opening_stock", d, "OK", <<>>)
         /\ daily_stock_summary' =
              IF prev # 0 THEN CopyClosingAsOpening(daily_stock_summary, curr, prev)
              ELSE InsertZeroRows(daily_stock_summary, curr)
         /\ UNCHANGED <<stock_days, delivery_issues, delivery_expected_amount,
                        delivery_cash_deposit, delivery_cash_balance,
                        delivery_vehicle_empty_stock>>

\* ------------------------------------------- transaction recorder (step 3)
\* Variant refuted by C6: a day lookup without the status check.
GetDayError(days, d) ==
    IF DayByDate(days, d) = 0 THEN "DayNotFound" ELSE "OK"

\* _get_open_day: the error it raises for the date, "OK" when the day is OPEN.
GetOpenDayError(days, d) ==
    LET day == DayByDate(days, d) IN
    IF day = 0 THEN "DayNotFound"
    ELSE IF days[day].status # "OPEN" THEN "DayNotOpen"
    ELSE "OK"

\* Variant refuted by C21: a movement added to the figures already on the row.
AddMovement(dss, day_id, ct_id, received, returned) ==
    [i \in DOMAIN dss |->
        IF dss[i].stock_day_id = day_id /\ dss[i].cylinder_type_id = ct_id
        THEN [dss[i] EXCEPT !.item_receipt = @ + received, !.item_return = @ + returned]
        ELSE dss[i]]

\* UPDATE daily_stock_summary SET item_receipt = :received, item_return = :returned
\* WHERE stock_day_id = :day_id AND cylinder_type_id = :cylinder_id.
SetMovement(dss, day_id, ct_id, received, returned) ==
    [i \in DOMAIN dss |->
        IF dss[i].stock_day_id = day_id /\ dss[i].cylinder_type_id = ct_id
        THEN [dss[i] EXCEPT !.item_receipt = received, !.item_return = returned]
        ELSE dss[i]]

RECURSIVE ApplyMovements(_, _, _)
\* The loop of update_iocl_movements over the request's list.
ApplyMovements(dss, day_id, movements) ==
    IF movements = <<>> THEN [error |-> "OK", detail |-> <<>>, dss |-> dss]
    ELSE LET m == Head(movements)
             cylinder == CylinderByName(m.cylinder_type, TRUE)
         IN IF cylinder = 0
            THEN [error |-> "InvalidStockData", detail |-> <<>>, dss |-> dss]
            ELSE ApplyMovements(SetMovement(dss, day_id, cylinder, m.received, m.returned),
                                day_id, Tail(movements))

\* Variant refuted by C20: a recorder whose writes before the failing entry stay.
update_iocl_movements_autocommit(d, movements) ==
    LET err == GetOpenDayError(stock_days, d)
        r == ApplyMovements(daily_stock_summary, DayByDate(stock_days, d), movements)
    IN
    IF err # "OK" THEN Raise("update_iocl_movements", d, err, <<>>)
    ELSE /\ IF r.error # "OK"
            THEN /\ result' = Outcome("update_iocl_movements", d, r.error,
                                      Discarded(r.dss # daily_stock_summary))
                 /\ UNCHANGED <<delivery_boys, nops, balance_calls, create_calls>>
            ELSE Commit("update_iocl_movements", d, "OK", movements)
         /\ daily_stock_summary' = r.dss
         /\ UNCHANGED <<stock_days, delivery_issues, delivery_expected_amount,
                        delivery_cash_deposit, delivery_cash_balance,
                        delivery_vehicle_empty_stock>>

update_iocl_movements(d, movements) ==
    LET err == GetOpenDayError(stock_days, d)
        r == ApplyMovements(daily_stock_summary, DayByDate(stock_days, d), movements)
    IN
    IF err # "OK" THEN Raise("update_iocl_movements", d, err, <<>>)
    ELSE IF r.error # "OK" THEN Raise("update_iocl_movements", d, r.error,
                               Discarded(r.dss # daily_stock_summary))
    ELSE /\ Commit("update_iocl_movements", d, "OK", movements)
         /\ daily_stock_summary' = r.dss
         /\ UNCHANGED <<stock_days, delivery_issues, delivery_expected_amount,
                        delivery_cash_deposit, delivery_cash_balance,
                        delivery_vehicle_empty_stock>>

\* The unique key of delivery_issues that ON DUPLICATE KEY UPDATE resolves against.
SameIssueKey(row, day_id, boy_id, ct_id, source) ==
    /\ row.stock_day_id = day_id
    /\ row.delivery_boy_id = boy_id
    /\ row.cylinder_type_id = ct_id
    /\ row.delivery_source = source

\* Variant refuted by C22: an upsert that adds the quantities to the stored row.
AccumulateIssue(issues, day_id, boy_id, ct_id, source, regular, nc, dbc) ==
    LET old == { x \in issues : SameIssueKey(x, day_id, boy_id, ct_id, source) }
        sofar == IF old = {} THEN [regular_qty |-> 0, nc_qty |-> 0, dbc_qty |-> 0]
                 ELSE CHOOSE x \in old : TRUE
    IN (issues \ old)
       \cup { [stock_day_id |-> day_id, delivery_boy_id |-> boy_id, cylinder_type_id |-> ct_id,
               delivery_source |-> source,
               regular_qty |-> sofar.regular_qty + regular, nc_qty |-> sofar.nc_qty + nc,
               dbc_qty |-> sofar.dbc_qty + dbc] }

\* INSERT INTO delivery_issues ... ON DUPLICATE KEY UPDATE regular_qty, nc_qty, dbc_qty.
UpsertIssue(issues, day_id, boy_id, ct_id, source, regular, nc, dbc) ==
    { x \in issues : ~SameIssueKey(x, day_id, boy_id, ct_id, source) }
    \cup { [stock_day_id |-> day_id, delivery_boy_id |-> boy_id, cylinder_type_id |-> ct_id,
            delivery_source |-> source,
            regular_qty |-> regular, nc_qty |-> nc, dbc_qty |-> dbc] }

RECURSIVE ApplySales(_, _, _)
\* The loop of record_delivery_sales over the request's list.
ApplySales(issues, day_id, sales) ==
    IF sales = <<>> THEN [error |-> "OK", detail |-> <<>>, issues |-> issues]
    ELSE LET s == Head(sales)
             delivery_boy == BoyByName(s.delivery_boy_name, TRUE)
             cylinder == CylinderByName(s.cylinder_type, TRUE)
         IN IF delivery_boy = 0
            THEN [error |-> "DeliveryBoyNotFound", detail |-> <<>>,
                  issues |-> issues]
            ELSE IF cylinder = 0
            THEN [error |-> "InvalidStockData", detail |-> <<>>,
                  issues |-> issues]
            ELSE ApplySales(UpsertIssue(issues, day_id, delivery_boy, cylinder, "FIELD",
                                        s.regular_qty, s.nc_qty, s.dbc_qty),
                            day_id, Tail(sales))

record_delivery_sales(d, sales) ==
    LET err == GetOpenDayError(stock_days, d)
        r == ApplySales(delivery_issues, DayByDate(stock_days, d), sales)
    IN
    IF err # "OK" THEN Raise("record_delivery_sales", d, err, <<>>)
    ELSE IF r.error # "OK" THEN Raise("record_delivery_sales", d, r.error,
                               Discarded(r.issues # delivery_issues))
    ELSE /\ Commit("record_delivery_sales", d, "OK", sales)
         /\ delivery_issues' = r.issues
         /\ UNCHANGED <<stock_days, daily_stock_summary, delivery_expected_amount,
                        delivery_cash_deposit, delivery_cash_balance,
                        delivery_vehicle_empty_stock>>

RECURSIVE ApplyOfficeSales(_, _, _, _)
\* The loop of record_office_sale over the request's list.
ApplyOfficeSales(issues, day_id, office, sales) ==
    IF sales = <<>> THEN [error |-> "OK", detail |-> <<>>, issues |-> issues]
    ELSE LET s == Head(sales)
             cylinder == CylinderByName(s.cylinder_type, FALSE)
         IN IF cylinder = 0
            THEN [error |-> "InvalidStockData", detail |-> <<>>,
                  issues |-> issues]
            ELSE ApplyOfficeSales(UpsertIssue(issues, day_id, office, cylinder, "OFFICE",
                                              s.regular_qty, s.nc_qty, s.dbc_qty),
                                  day_id, office, Tail(sales))

\* Variant refuted by C33: an office sale recorded without the lookup of the
\* Office delivery boy being checked.
record_office_sale_unchecked(d, sales) ==
    LET err == GetOpenDayError(stock_days, d)
        office == BoyByName("Office", FALSE)
        r == ApplyOfficeSales(delivery_issues, DayByDate(stock_days, d), office, sales)
    IN
    IF err # "OK" THEN Raise("record_office_sale", d, err, <<>>)
    ELSE IF r.error # "OK" THEN Raise("record_office_sale", d, r.error,
                               Discarded(r.issues # delivery_issues))
    ELSE /\ Commit("record_office_sale", d, "OK", <<>>)
         /\ delivery_issues' = r.issues
         /\ UNCHANGED <<stock_days, daily_stock_summary, delivery_expected_amount,
                        delivery_cash_deposit, delivery_cash_balance,
                        delivery_vehicle_empty_stock>>
record_office_sale(d, sales) ==
    LET err == GetOpenDayError(stock_days, d)
        office == BoyByName("Office", FALSE)
        r == ApplyOfficeSales(delivery_issues, DayByDate(stock_days, d), office, sales)
    IN
    IF err # "OK" THEN Raise("record_office_sale", d, err, <<>>)
    ELSE IF office = 0 THEN Raise("record_office_sale", d, "BusinessException", <<>>)
    ELSE IF r.error # "OK" THEN Raise("record_office_sale", d, r.error,
                               Discarded(r.issues # delivery_issues))
    ELSE /\ Commit("record_office_sale", d, "OK", <<>>)
         /\ delivery_issues' = r.issues
         /\ UNCHANGED <<stock_days, daily_stock_summary, delivery_expected_amount,
                        delivery_cash_deposit, delivery_cash_balance,
                        delivery_vehicle_empty_stock>>

\* Variant refuted by C23: a TV-out quantity that replaces the one on the row.
SetTvOut(dss, day_id, ct_id, qty) ==
    [i \in DOMAIN dss |->
        IF dss[i].stock_day_id = day_id /\ dss[i].cylinder_type_id = ct_id
        THEN [dss[i] EXCEPT !.tv_out_qty = qty]
        ELSE dss[i]]

\* UPDATE daily_stock_summary SET tv_out_qty = IFNULL(tv_out_qty, 0) + :qty WHERE day AND type.
AddTvOut(dss, day_id, ct_id, qty) ==
    [i \in DOMAIN dss |->
        IF dss[i].stock_day_id = day_id /\ dss[i].cylinder_type_id = ct_id
        THEN [dss[i] EXCEPT !.tv_out_qty = @ + qty]
        ELSE dss[i]]

\* INSERT INTO delivery_vehicle_empty_stock ... ON DUPLICATE KEY UPDATE empty_qty = empty_qty + :qty.
AddVehicleEmpty(dves, day_id, boy_id, ct_id, qty) ==
    LET old == { x \in dves : /\ x.stock_day_id = day_id
                              /\ x.delivery_boy_id = boy_id
                              /\ x.cylinder_type_id = ct_id }
        sofar == IF old = {} THEN 0 ELSE (CHOOSE x \in old : TRUE).empty_qty
    IN (dves \ old)
       \cup { [stock_day_id |-> day_id, delivery_boy_id |-> boy_id,
               cylinder_type_id |-> ct_id, empty_qty |-> sofar + qty] }

RECURSIVE ApplyTvOut(_, _, _, _)
\* The loop of record_tv_out over the request's list.
ApplyTvOut(dss, dves, day_id, entries) ==
    IF entries = <<>> THEN [error |-> "OK", detail |-> <<>>, dss |-> dss, dves |-> dves]
    ELSE LET e == Head(entries)
             cylinder == CylinderByName(e.cylinder_type, FALSE)
             delivery_boy == BoyByName(e.delivery_boy_name, FALSE)
         IN IF cylinder = 0
            THEN [error |-> "InvalidStockData", detail |-> <<>>,
                  dss |-> dss, dves |-> dves]
            ELSE ApplyTvOut(AddTvOut(dss, day_id, cylinder, e.quantity),
                            IF delivery_boy # 0
                            THEN AddVehicleEmpty(dves, day_id, delivery_boy, cylinder, e.quantity)
                            ELSE dves,
                            day_id, Tail(entries))

record_tv_out(d, entries) ==
    LET err == GetOpenDayError(stock_days, d)
        r == ApplyTvOut(daily_stock_summary, delivery_vehicle_empty_stock,
                        DayByDate(stock_days, d), entries)
    IN
    IF err # "OK" THEN Raise("record_tv_out", d, err, <<>>)
    ELSE IF r.error # "OK" THEN Raise("record_tv_out", d, r.error,
                               Discarded(r.dss # daily_stock_summary
                                         \/ r.dves # delivery_vehicle_empty_stock))
    ELSE /\ Commit("record_tv_out", d, "OK", entries)
         /\ daily_stock_summary' = r.dss
         /\ delivery_vehicle_empty_stock' = r.dves
         /\ UNCHANGED <<stock_days, delivery_issues, delivery_expected_amount,
                        delivery_cash_deposit, delivery_cash_balance>>

\* ---------------------------------------------- stock reconciler (step 4)
\* Variant refuted by C31: an aggregate over the FIELD issues alone.
FieldIssuesOf(issues, day_id, ct_id) ==
    { x \in issues : /\ x.stock_day_id = day_id /\ x.cylinder_type_id = ct_id
                     /\ x.delivery_source = "FIELD" }
\* The delivery_issues rows of one day and cylinder type, FIELD and OFFICE alike.
IssuesOf(issues, day_id, ct_id) ==
    { x \in issues : x.stock_day_id = day_id /\ x.cylinder_type_id = ct_id }

\* Variant refuted by C28: a step 4.1 that aggregates on the rows of every day.
AggregateSalesAnyDay(dss, issues, day_id) ==
    [i \in DOMAIN dss |->
        LET di == IssuesOf(issues, dss[i].stock_day_id, dss[i].cylinder_type_id) IN
        IF di # {}
        THEN [dss[i] EXCEPT
                !.sales_regular = SumSet(di, [x \in di |-> x.regular_qty]),
                !.nc_qty = SumSet(di, [x \in di |-> x.nc_qty]),
                !.dbc_qty = SumSet(di, [x \in di |-> x.dbc_qty])]
        ELSE dss[i]]

\* Step 4.1: UPDATE daily_stock_summary JOIN (SELECT SUM(...) FROM delivery_issues GROUP BY type).
\* The inner join leaves a row without delivery issues as it is.
AggregateSales(dss, issues, day_id) ==
    [i \in DOMAIN dss |->
        LET di == IssuesOf(issues, day_id, dss[i].cylinder_type_id) IN
        IF dss[i].stock_day_id = day_id /\ di # {}
        THEN [dss[i] EXCEPT
                !.sales_regular = SumSet(di, [x \in di |-> x.regular_qty]),
                !.nc_qty = SumSet(di, [x \in di |-> x.nc_qty]),
                !.dbc_qty = SumSet(di, [x \in di |-> x.dbc_qty])]
        ELSE dss[i]]

\* Variant refuted by C30: a closing_filled that builds on the one already stored.
ClosingFilledOnTop(r) ==
    r.closing_filled + r.opening_filled + r.item_receipt
    - (r.sales_regular + r.nc_qty + r.dbc_qty)

\* Step 4.2: closing_filled of a row.
ClosingFilled(r) ==
    r.opening_filled + r.item_receipt - (r.sales_regular + r.nc_qty + r.dbc_qty)

\* Variant refuted by C9: a closing_empty without the TV-out term.
ClosingEmptyWithoutTvOut(r) ==
    r.opening_empty + r.sales_regular - r.item_return

\* Step 4.3: closing_empty of a row.
ClosingEmpty(r) ==
    r.opening_empty + r.sales_regular + r.tv_out_qty - r.item_return

\* Step 4.4: total_stock of a row whose closing figures are set.
TotalStock(r) ==
    r.closing_filled + r.closing_empty + r.defective_empty_vehicle

\* Steps 4.1 to 4.4, each an UPDATE over the rows of the day.
DeriveClosing(dss, issues, day_id) ==
    LET agg == AggregateSales(dss, issues, day_id)
        filled == [i \in DOMAIN agg |->
                     IF agg[i].stock_day_id = day_id
                     THEN [agg[i] EXCEPT !.closing_filled = ClosingFilled(agg[i])]
                     ELSE agg[i]]
        empty == [i \in DOMAIN filled |->
                     IF filled[i].stock_day_id = day_id
                     THEN [filled[i] EXCEPT !.closing_empty = ClosingEmpty(filled[i])]
                     ELSE filled[i]]
    IN [i \in DOMAIN empty |->
          IF empty[i].stock_day_id = day_id
          THEN [empty[i] EXCEPT !.total_stock = TotalStock(empty[i])]
          ELSE empty[i]]

\* The validation query's WHERE clause on one row.
IsNegative(r) == r.closing_filled < 0 \/ r.closing_empty < 0

\* Variant refuted by C10: a validation that stops at the first negative row.
FirstNegativeStock(dss, day_id) ==
    LET bad == SelectSeq(dss, LAMBDA r : r.stock_day_id = day_id /\ IsNegative(r))
    IN IF bad = <<>> THEN <<>> ELSE <<CylinderName(bad[1].cylinder_type_id)>>

\* SELECT ct.name ... WHERE stock_day_id = :day_id AND (closing_filled < 0 OR closing_empty < 0).
NegativeStock(dss, day_id) ==
    LET bad == SelectSeq(dss, LAMBDA r : r.stock_day_id = day_id /\ IsNegative(r))
    IN [i \in DOMAIN bad |-> CylinderName(bad[i].cylinder_type_id)]

\* db.commit() comes before the validation: the derived figures are stored even
\* when NegativeStockException is raised.
calculate_closing_stock(d) ==
    LET day == DayByDate(stock_days, d)
        derived == DeriveClosing(daily_stock_summary, delivery_issues, day)
        negative_stock == NegativeStock(derived, day)
    IN
    IF day = 0
    THEN Raise("calculate_closing_stock", d, "DayNotFound", <<>>)
    ELSE /\ Commit("calculate_closing_stock", d,
                   IF negative_stock # <<>> THEN "NegativeStock" ELSE "OK", negative_stock)
         /\ daily_stock_summary' = derived
         /\ UNCHANGED <<stock_days, delivery_issues, delivery_expected_amount,
                        delivery_cash_deposit, delivery_cash_balance,
                        delivery_vehicle_empty_stock>>

\* ----------------------------------- cash expectation calculator (step 5)
Price(ct_id) == CHOOSE p \in price_nc_components : p.cylinder_type_id = ct_id
Category(ct_id) == (CHOOSE c \in cylinder_types : c.id = ct_id).category

\* regular_qty * refill_amount of one delivery issue.
RegularAmount(x) == x.regular_qty * Price(x.cylinder_type_id).refill_amount

\* Variant refuted by C13: an NC amount with the regulator charge for every category.
NcAmountWithRegulator(x) ==
    LET p == Price(x.cylinder_type_id) IN
    x.nc_qty * (p.deposit_amount + p.refill_amount + p.document_charge
                + p.installation_charge + p.regulator_charge)

\* nc_qty * (deposit + refill + document + installation + regulator when DOMESTIC).
NcAmount(x) ==
    LET p == Price(x.cylinder_type_id) IN
    x.nc_qty * (p.deposit_amount + p.refill_amount + p.document_charge
                + p.installation_charge
                + (IF Category(x.cylinder_type_id) = "DOMESTIC"
                   THEN p.regulator_charge ELSE 0))

\* dbc_qty * (deposit + refill + document + installation).
DbcAmount(x) ==
    LET p == Price(x.cylinder_type_id) IN
    x.dbc_qty * (p.deposit_amount + p.refill_amount + p.document_charge
                 + p.installation_charge)

\* Variant refuted by C14: subquery s without the filter on delivery_source.
AllIssues(issues, day_id) ==
    { x \in issues : x.stock_day_id = day_id }

\* The rows of subquery s: the day's delivery issues whose source is not OFFICE.
FieldIssues(issues, day_id) ==
    { x \in issues : x.stock_day_id = day_id /\ x.delivery_source # "OFFICE" }

\* Variant refuted by C29: a refund deducted once, from the first active delivery boy.
TvOutRefundOnce(dss, boys, day_id, boy_id) ==
    LET rows == SelectSeq(dss, LAMBDA r : r.stock_day_id = day_id /\ r.tv_out_qty > 0)
        active == { b.id : b \in { x \in boys : x.is_active } }
    IN IF boy_id \in active /\ \A o \in active : boy_id <= o
       THEN SumSet(DOMAIN rows,
                   [i \in DOMAIN rows |->
                      rows[i].tv_out_qty * Price(rows[i].cylinder_type_id).deposit_amount])
       ELSE 0

\* Subquery t: SUM(tv_out_qty * deposit_amount) over the day's rows with tv_out_qty > 0,
\* the same for every active delivery boy; no row (NULL, read as 0) for another boy.
TvOutRefund(dss, boys, day_id, boy_id) ==
    LET rows == SelectSeq(dss, LAMBDA r : r.stock_day_id = day_id /\ r.tv_out_qty > 0)
    IN IF \E b \in boys : b.id = boy_id /\ b.is_active
       THEN SumSet(DOMAIN rows,
                   [i \in DOMAIN rows |->
                      rows[i].tv_out_qty * Price(rows[i].cylinder_type_id).deposit_amount])
       ELSE 0

\* Variant refuted by C34: an expected amount that is never below zero.
ExpectedAmountClamped(dss, issues, boys, day_id, boy_id) ==
    LET mine == { x \in FieldIssues(issues, day_id) : x.delivery_boy_id = boy_id }
        due == SumSet(mine, [x \in mine |-> RegularAmount(x)])
               + SumSet(mine, [x \in mine |-> NcAmount(x)])
               + SumSet(mine, [x \in mine |-> DbcAmount(x)])
               - TvOutRefund(dss, boys, day_id, boy_id)
    IN IF due < 0 THEN 0 ELSE due
\* expected_amount of one delivery boy: subquery s LEFT JOIN subquery t.
ExpectedAmount(dss, issues, boys, day_id, boy_id) ==
    LET mine == { x \in FieldIssues(issues, day_id) : x.delivery_boy_id = boy_id }
    IN SumSet(mine, [x \in mine |-> RegularAmount(x)])
       + SumSet(mine, [x \in mine |-> NcAmount(x)])
       + SumSet(mine, [x \in mine |-> DbcAmount(x)])
       - TvOutRefund(dss, boys, day_id, boy_id)

\* Variant refuted by C15: a repeat that adds the amount to the stored one.
AccumulateExpected(dea, dss, issues, boys, day_id) ==
    LET groups == { x.delivery_boy_id : x \in FieldIssues(issues, day_id) }
        stored(b) == LET old == { x \in dea : x.stock_day_id = day_id /\ x.delivery_boy_id = b }
                     IN IF old = {} THEN 0 ELSE (CHOOSE x \in old : TRUE).expected_amount
    IN { x \in dea : ~(x.stock_day_id = day_id /\ x.delivery_boy_id \in groups) }
       \cup { [stock_day_id |-> day_id, delivery_boy_id |-> b,
               expected_amount |->
                 stored(b) + ExpectedAmount(dss, issues, boys, day_id, b)]
              : b \in groups }

\* INSERT INTO delivery_expected_amount ... SELECT ... ON DUPLICATE KEY UPDATE expected_amount.
UpsertExpected(dea, dss, issues, boys, day_id) ==
    LET groups == { x.delivery_boy_id : x \in FieldIssues(issues, day_id) }
    IN { x \in dea : ~(x.stock_day_id = day_id /\ x.delivery_boy_id \in groups) }
       \cup { [stock_day_id |-> day_id, delivery_boy_id |-> b,
               expected_amount |-> ExpectedAmount(dss, issues, boys, day_id, b)]
              : b \in groups }

calculate_expected_cash(d) ==
    LET day == DayByDate(stock_days, d) IN
    IF day = 0
    THEN Raise("calculate_expected_cash", d, "DayNotFound", <<>>)
    ELSE /\ Commit("calculate_expected_cash", d, "OK", <<>>)
         /\ delivery_expected_amount' =
              UpsertExpected(delivery_expected_amount, daily_stock_summary,
                             delivery_issues, delivery_boys, day)
         /\ UNCHANGED <<stock_days, daily_stock_summary, delivery_issues,
                        delivery_cash_deposit, delivery_cash_balance,
                        delivery_vehicle_empty_stock>>

\* ------------------------------------------- deposit reconciler (step 6)
\* INSERT INTO delivery_cash_deposit (..., cash_amount, upi_amount) ... ON DUPLICATE KEY
\* UPDATE cash_amount, upi_amount, total_deposited = :cash + :upi. The INSERT names no
\* total_deposited: a first row keeps the column default.
UpsertDeposit(dcd, day_id, boy_id, cash, upi) ==
    LET old == { x \in dcd : x.stock_day_id = day_id /\ x.delivery_boy_id = boy_id }
    IN (dcd \ old)
       \cup { [stock_day_id |-> day_id, delivery_boy_id |-> boy_id,
               cash_amount |-> cash, upi_amount |-> upi,
               total_deposited |-> IF old = {} THEN ColumnDefault ELSE cash + upi] }

RECURSIVE ApplyDeposits(_, _, _)
\* The loop of record_cash_deposits over the request's list.
ApplyDeposits(dcd, day_id, deposits) ==
    IF deposits = <<>> THEN [error |-> "OK", detail |-> <<>>, dcd |-> dcd]
    ELSE LET dep == Head(deposits)
             delivery_boy == BoyByName(dep.delivery_boy_name, FALSE)
         IN IF delivery_boy = 0
            THEN [error |-> "DeliveryBoyNotFound", detail |-> <<>>,
                  dcd |-> dcd]
            ELSE ApplyDeposits(UpsertDeposit(dcd, day_id, delivery_boy,
                                             dep.cash_amount, dep.upi_amount),
                               day_id, Tail(deposits))

\* Variant refuted by C35: a step 7.2 that joins the expected amounts of every day.
TodayExpectedAnyDay(dea, day_id, boy_id) ==
    LET rows == { x \in dea : x.delivery_boy_id = boy_id }
    IN SumSet(rows, [x \in rows |-> x.expected_amount])
\* IFNULL(dea.expected_amount, 0) of a LEFT JOIN delivery_expected_amount on day and boy
\* (the summary query and step 7.2).
TodayExpected(dea, day_id, boy_id) ==
    LET rows == { x \in dea : x.stock_day_id = day_id /\ x.delivery_boy_id = boy_id }
    IN IF rows = {} THEN 0 ELSE (CHOOSE x \in rows : TRUE).expected_amount

\* Variant refuted by C17: a summary whose variance is expected minus deposited.
ShortfallSummary(dcd, dea, boys, day_id) ==
    { [delivery_boy_name |-> (CHOOSE b \in boys : b.id = x.delivery_boy_id).name,
       cash_amount |-> x.cash_amount, upi_amount |-> x.upi_amount,
       total_deposited |-> x.total_deposited,
       expected_amount |-> TodayExpected(dea, day_id, x.delivery_boy_id),
       variance |-> TodayExpected(dea, day_id, x.delivery_boy_id) - x.total_deposited] :
      x \in { y \in dcd : y.stock_day_id = day_id
                          /\ \E b \in boys : b.id = y.delivery_boy_id } }

\* The summary query: delivery_cash_deposit JOIN delivery_boys LEFT JOIN
\* delivery_expected_amount, one row per deposit row of the day (the ORDER BY is left out).
DepositSummary(dcd, dea, boys, day_id) ==
    { [delivery_boy_name |-> (CHOOSE b \in boys : b.id = x.delivery_boy_id).name,
       cash_amount |-> x.cash_amount, upi_amount |-> x.upi_amount,
       total_deposited |-> x.total_deposited,
       expected_amount |-> TodayExpected(dea, day_id, x.delivery_boy_id),
       variance |-> x.total_deposited - TodayExpected(dea, day_id, x.delivery_boy_id)] :
      x \in { y \in dcd : y.stock_day_id = day_id
                          /\ \E b \in boys : b.id = y.delivery_boy_id } }

\* The totals query and the response built from both.
DepositResponse(dcd, dea, boys, day_id) ==
    LET rows == { x \in dcd : x.stock_day_id = day_id }
    IN [deposits |-> DepositSummary(dcd, dea, boys, day_id),
        total_cash |-> SumSet(rows, [x \in rows |-> x.cash_amount]),
        total_upi |-> SumSet(rows, [x \in rows |-> x.upi_amount]),
        total_deposited |-> SumSet(rows, [x \in rows |-> x.total_deposited])]

record_cash_deposits(d, deposits) ==
    LET day == DayByDate(stock_days, d)
        r == ApplyDeposits(delivery_cash_deposit, day, deposits)
    IN
    IF day = 0 THEN Raise("record_cash_deposits", d, "DayNotFound", <<>>)
    ELSE IF r.error # "OK" THEN Raise("record_cash_deposits", d, r.error,
                               Discarded(r.dcd # delivery_cash_deposit))
    ELSE /\ Commit("record_cash_deposits", d, "OK",
                   DepositResponse(r.dcd, delivery_expected_amount, delivery_boys, day))
         /\ delivery_cash_deposit' = r.dcd
         /\ UNCHANGED <<stock_days, daily_stock_summary, delivery_issues,
                        delivery_expected_amount, delivery_cash_balance,
                        delivery_vehicle_empty_stock>>

\* ------------------------------------------------- balance roller (step 7)
\* Step 7.3: SUM(total_deposited) of the boy on the day, 0 without a row.
TodayDeposited(dcd, day_id, boy_id) ==
    LET rows == { x \in dcd : x.stock_day_id = day_id /\ x.delivery_boy_id = boy_id }
    IN SumSet(rows, [x \in rows |-> x.total_deposited])

\* Variant refuted by C18: a status that tells no EXCESS from PENDING.
BalanceStatusUnsigned(closing) ==
    IF closing = 0 THEN "SETTLED" ELSE "PENDING"

\* Step 7.5: the CASE on closing_balance.
BalanceStatus(closing) ==
    IF closing = 0 THEN "SETTLED" ELSE IF closing > 0 THEN "PENDING" ELSE "EXCESS"

\* Variant refuted by C19: a roll that freezes the opening balance only when the
\* day's amounts are not yet on the row.
RollBalanceOnce(row, expected, deposited) ==
    LET again == row.today_expected = expected /\ row.today_deposited = deposited
        opening == IF again THEN row.opening_balance ELSE row.closing_balance
        closing == opening + expected - deposited
    IN [opening_balance |-> opening, today_expected |-> expected,
        today_deposited |-> deposited, closing_balance |-> closing,
        balance_status |-> BalanceStatus(closing)]

\* Steps 7.1 to 7.5 on one delivery_cash_balance row.
RollBalance(row, expected, deposited) ==
    LET opening == row.closing_balance
        closing == opening + expected - deposited
    IN [opening_balance |-> opening, today_expected |-> expected,
        today_deposited |-> deposited, closing_balance |-> closing,
        balance_status |-> BalanceStatus(closing)]

update_delivery_boy_balances(d) ==
    LET day == DayByDate(stock_days, d) IN
    IF day = 0
    THEN Raise("update_delivery_boy_balances", d, "DayNotFound", <<>>)
    ELSE /\ Commit("update_delivery_boy_balances", d, "OK", <<>>)
         /\ delivery_cash_balance' =
              [b \in DOMAIN delivery_cash_balance |->
                 RollBalance(delivery_cash_balance[b],
                             TodayExpected(delivery_expected_amount, day, b),
                             TodayDeposited(delivery_cash_deposit, day, b))]
         /\ UNCHANGED <<stock_days, daily_stock_summary, delivery_issues,
                        delivery_expected_amount, delivery_cash_deposit,
                        delivery_vehicle_empty_stock>>

\* Variant refuted by C27: a step 7.1 that leaves opening_balance alone.
KeepOpening(dcb) == dcb

\* Step 7.1: UPDATE delivery_cash_balance SET opening_balance = closing_balance.
FreezeOpening(dcb) ==
    [b \in DOMAIN dcb |-> [dcb[b] EXCEPT !.opening_balance = dcb[b].closing_balance]]

\* Step 7.2: SET today_expected = IFNULL(dea.expected_amount, 0).
SetTodayExpected(dcb, dea, day_id) ==
    [b \in DOMAIN dcb |-> [dcb[b] EXCEPT !.today_expected = TodayExpected(dea, day_id, b)]]

\* Step 7.3: SET today_deposited = IFNULL(dep.deposited_today, 0).
SetTodayDeposited(dcb, dcd, day_id) ==
    [b \in DOMAIN dcb |-> [dcb[b] EXCEPT !.today_deposited = TodayDeposited(dcd, day_id, b)]]

\* Step 7.4: SET closing_balance = opening_balance + today_expected - today_deposited.
SetClosingBalance(dcb) ==
    [b \in DOMAIN dcb |->
       [dcb[b] EXCEPT !.closing_balance =
                        dcb[b].opening_balance + dcb[b].today_expected
                        - dcb[b].today_deposited]]

\* Step 7.5: SET balance_status by the CASE on closing_balance.
SetBalanceStatus(dcb) ==
    [b \in DOMAIN dcb |->
       [dcb[b] EXCEPT !.balance_status = BalanceStatus(dcb[b].closing_balance)]]

\* One UPDATE of a call under way, executed on the table as the other caller's
\* statements left it: the code takes no lock of its own and the statements of two
\* sessions are ordered by the database alone.
BalanceStatement(s, pc, next, dcb) ==
    /\ balance_calls.at[s] = pc
    /\ delivery_cash_balance' = dcb
    /\ balance_calls' =
         [balance_calls EXCEPT
            !.at[s] = next,
            !.interleaved = @ \/ \E o \in Callers \ {s} :
                                   balance_calls.at[o] \notin {"7.1", "done"},
            !.rolled = IF next = "done" THEN @ \cup {balance_calls.stock_date[s]} ELSE @]
    /\ result' = IF next = "done"
                 THEN Outcome("update_delivery_boy_balances",
                              balance_calls.stock_date[s], "OK", <<>>)
                 ELSE result
    /\ UNCHANGED <<delivery_boys, stock_days, daily_stock_summary, delivery_issues,
                   delivery_expected_amount, delivery_cash_deposit,
                   delivery_vehicle_empty_stock, nops, create_calls>>

\* The day a caller's request names.
CallDay(s) == DayByDate(stock_days, balance_calls.stock_date[s])

freeze_opening_balance(s) ==
    BalanceStatement(s, "7.1", "7.2", FreezeOpening(delivery_cash_balance))
update_today_expected(s) ==
    BalanceStatement(s, "7.2", "7.3",
                     SetTodayExpected(delivery_cash_balance, delivery_expected_amount,
                                      CallDay(s)))
update_today_deposited(s) ==
    BalanceStatement(s, "7.3", "7.4",
                     SetTodayDeposited(delivery_cash_balance, delivery_cash_deposit,
                                       CallDay(s)))
calculate_closing_balance(s) ==
    BalanceStatement(s, "7.4", "7.5", SetClosingBalance(delivery_cash_balance))
update_balance_status(s) ==
    BalanceStatement(s, "7.5", "done", SetBalanceStatus(delivery_cash_balance))

\* ------------------------------------------------------------ requests
\* The request lists explored (entries as in app/models/schema.py): the lists of
\* one entry, with quantities 0 or MaxQty, and a list of two entries whose first
\* entry is served and whose second entry names what the catalog lacks.
OneOf(entries) == { <<e>> : e \in entries }

IOCLMovement(n, received, returned) ==
    [cylinder_type |-> n, received |-> received, returned |-> returned]
DeliverySale(b, n, regular, nc, dbc) ==
    [delivery_boy_name |-> b, cylinder_type |-> n,
     regular_qty |-> regular, nc_qty |-> nc, dbc_qty |-> dbc]
OfficeSale(n, regular, nc, dbc) ==
    [cylinder_type |-> n, regular_qty |-> regular, nc_qty |-> nc, dbc_qty |-> dbc]
TVOutEntry(b, n, quantity) ==
    [delivery_boy_name |-> b, cylinder_type |-> n, quantity |-> quantity]
CashDeposit(b, cash, upi) ==
    [delivery_boy_name |-> b, cash_amount |-> cash, upi_amount |-> upi]

IOCLMovements ==
    OneOf({ IOCLMovement(n, q[1], q[2]) :
            n \in {"14.2KG", "19KG", "47KG"}, q \in {<<MaxQty, 0>>, <<0, MaxQty>>} })
    \cup {<<IOCLMovement("14.2KG", MaxQty, 0), IOCLMovement("47KG", MaxQty, 0)>>}
DeliverySales ==
    OneOf({ DeliverySale(b, n, q[1], q[2], q[3]) :
            b \in {"Ravi", "Nobody"}, n \in {"14.2KG", "19KG", "5KG"},
            q \in {<<MaxQty, 0, 0>>, <<0, MaxQty, 0>>, <<0, 0, MaxQty>>} })
    \cup {<<DeliverySale("Ravi", "14.2KG", MaxQty, 0, 0),
            DeliverySale("Nobody", "14.2KG", MaxQty, 0, 0)>>}
OfficeSales ==
    OneOf({ OfficeSale(n, MaxQty, 0, 0) : n \in {"14.2KG", "47KG"} })
    \cup {<<OfficeSale("14.2KG", MaxQty, 0, 0), OfficeSale("47KG", MaxQty, 0, 0)>>}
TVOutEntries ==
    OneOf({ TVOutEntry(b, n, MaxQty) : b \in {"Ravi"}, n \in {"14.2KG", "19KG", "47KG"} })
    \cup {<<TVOutEntry("Ravi", "14.2KG", MaxQty), TVOutEntry("Ravi", "47KG", MaxQty)>>}
CashDeposits ==
    OneOf({ CashDeposit(b, q[1], q[2]) :
            b \in {"Ravi", "Nobody"}, q \in {<<MaxQty, 0>>, <<MaxQty, MaxQty>>} })
    \cup {<<CashDeposit("Ravi", MaxQty, 0), CashDeposit("Nobody", MaxQty, 0)>>}

\* A request is served when the one before it has been answered.
Request(served) == Ready /\ served

\* The request reached db.commit().
Stored == nops' = nops + 1

\* A request that commits, while the bound on committed requests allows one.
Storing(served) == nops < MaxOps /\ Request(served) /\ Stored

Next ==
    \/ \E d \in Dates : Request(create_stock_day(d))
    \/ \E d \in Dates : Request(initialize_opening_stock(d))
    \/ \E d \in Dates, l \in IOCLMovements : Request(update_iocl_movements(d, l))
    \/ \E d \in Dates, l \in DeliverySales : Request(record_delivery_sales(d, l))
    \/ \E d \in Dates, l \in OfficeSales : Request(record_office_sale(d, l))
    \/ \E d \in Dates, l \in TVOutEntries : Request(record_tv_out(d, l))
    \/ \E d \in Dates : Request(calculate_closing_stock(d))
    \/ \E d \in Dates : Request(calculate_expected_cash(d))
    \/ \E d \in Dates, l \in CashDeposits : Request(record_cash_deposits(d, l))
    \/ \E d \in Dates : Request(update_delivery_boy_balances(d))
    \/ \E d \in Dates : Request(close_day(d))

Spec == Init /\ [][Next]_vars

\* ------------------------------------------------------ stock ledger runs
\* The state after one worked and closed day: create_stock_day(d0),
\* initialize_opening_stock(d0), update_iocl_movements(d0, m), record_tv_out(d0, t),
\* calculate_closing_stock(d0) and close_day(d0), each committed, on the empty
\* database; and, when d1 is the day after d0, after create_stock_day(d1) and
\* initialize_opening_stock(d1) as well.
InitStock ==
    \E d0 \in Dates, d1 \in Dates,
       m \in { l \in IOCLMovements : l[1].cylinder_type = "14.2KG" },
       t \in {<<>>} \cup { l \in TVOutEntries : l[1].cylinder_type = "14.2KG" } :
        /\ d1 \in {d0, d0 + 1}
        /\ delivery_boys = Roster
        /\ LET mv == ApplyMovements(InsertZeroRows(<<>>, 1), 1, m)
               tv == ApplyTvOut(mv.dss, {}, 1, t)
               closed == UpdateClosed(InsertStockDay(<<>>, d0), 1)
               worked == DeriveClosing(tv.dss, {}, 1)
           IN /\ mv.error = "OK" /\ tv.error = "OK"
              /\ stock_days = IF d1 = d0 THEN closed ELSE InsertStockDay(closed, d1)
              /\ daily_stock_summary =
                   IF d1 = d0 THEN worked ELSE CopyClosingAsOpening(worked, 2, 1)
              /\ delivery_vehicle_empty_stock = tv.dves
        /\ delivery_issues = {}
        /\ delivery_expected_amount = {}
        /\ delivery_cash_deposit = {}
        /\ delivery_cash_balance =
             [b \in { x.id : x \in Roster } |->
                [opening_balance |-> 0, today_expected |-> 0, today_deposited |-> 0,
                 closing_balance |-> 0, balance_status |-> "SETTLED"]]
        /\ result = IF d1 = d0 THEN FirstOutcome("close_day", d0)
                    ELSE FirstOutcome("initialize_opening_stock", d1)
        /\ nops = 0
        /\ balance_calls = NoCalls
        /\ create_calls = NoCreates

\* The stock operations, followed through the requests that commit: a request that
\* raises before its commit changes no table.
NextStock ==
    \/ \E d \in Dates : Storing(create_stock_day(d))
    \/ \E d \in Dates : Storing(initialize_opening_stock(d))
    \/ \E d \in Dates, l \in IOCLMovements : Storing(update_iocl_movements(d, l))
    \/ \E d \in Dates, l \in DeliverySales : Storing(record_delivery_sales(d, l))
    \/ \E d \in Dates, l \in OfficeSales : Storing(record_office_sale(d, l))
    \/ \E d \in Dates, l \in TVOutEntries : Storing(record_tv_out(d, l))
    \/ \E d \in Dates : Storing(calculate_closing_stock(d))
    \/ \E d \in Dates : Storing(close_day(d))

SpecStock == InitStock /\ [][NextStock]_vars

\* -------------------------------------------------------- cash ledger runs
\* The state after the sales of one day are recorded: create_stock_day(d0),
\* initialize_opening_stock(d0), record_tv_out(d0, t), record_office_sale(d0, o) and
\* record_delivery_sales(d0, s) with a DOMESTIC and a COMMERCIAL entry, each
\* committed, on the empty database.
InitCash ==
    \E d0 \in Dates,
       t \in {<<>>} \cup { l \in TVOutEntries : l[1].cylinder_type = "14.2KG" },
       o \in {<<>>} \cup OfficeSales,
       q1 \in {<<MaxQty, 0, 0>>, <<0, MaxQty, 0>>, <<0, 0, MaxQty>>},
       q2 \in {<<0, MaxQty, 0>>, <<0, 0, MaxQty>>},
       b2 \in {"Ravi", "Mohan"} :
        /\ delivery_boys = Roster
        /\ LET tv == ApplyTvOut(InsertZeroRows(<<>>, 1), {}, 1, t)
               os == ApplyOfficeSales({}, 1, BoyByName("Office", FALSE), o)
               sl == ApplySales(os.issues, 1,
                                <<DeliverySale("Ravi", "14.2KG", q1[1], q1[2], q1[3]),
                                  DeliverySale(b2, "19KG", q2[1], q2[2], q2[3])>>)
           IN /\ tv.error = "OK" /\ os.error = "OK" /\ sl.error = "OK"
              /\ daily_stock_summary = tv.dss
              /\ delivery_vehicle_empty_stock = tv.dves
              /\ delivery_issues = sl.issues
        /\ stock_days = InsertStockDay(<<>>, d0)
        /\ delivery_expected_amount = {}
        /\ delivery_cash_deposit = {}
        /\ delivery_cash_balance =
             [b \in { x.id : x \in Roster } |->
                [opening_balance |-> 0, today_expected |-> 0, today_deposited |-> 0,
                 closing_balance |-> 0, balance_status |-> "SETTLED"]]
        /\ result = FirstOutcome("record_delivery_sales", d0)
        /\ nops = 0
        /\ balance_calls = NoCalls
        /\ create_calls = NoCreates

\* The cash operations and the office sales, followed through the requests that commit.
NextCash ==
    \/ \E d \in Dates, l \in OfficeSales : Storing(record_office_sale(d, l))
    \/ \E d \in Dates : Storing(calculate_expected_cash(d))
    \/ \E d \in Dates, l \in CashDeposits : Storing(record_cash_deposits(d, l))
    \/ \E d \in Dates : Storing(update_delivery_boy_balances(d))

SpecCash == InitCash /\ [][NextCash]_vars

\* ---------------------------------------------------------- two-day runs
\* The tables after a closed day d0 and the open day after it have their sales
\* recorded (create_stock_day, initialize_opening_stock and record_delivery_sales
\* for each, close_day for the first), calculate_expected_cash served for the days
\* in computed, and record_cash_deposits(d0, dp) served twice.
TwoDays(d0, q, computed, dp) ==
    /\ d0 + 1 \in Dates
    /\ delivery_boys = Roster
    /\ stock_days = InsertStockDay(UpdateClosed(InsertStockDay(<<>>, d0), 1), d0 + 1)
    /\ daily_stock_summary = CopyClosingAsOpening(InsertZeroRows(<<>>, 1), 2, 1)
    /\ LET s1 == ApplySales({}, 1, <<DeliverySale("Ravi", "14.2KG", q[1], q[2], q[3])>>)
           s2 == ApplySales(s1.issues, 2, <<DeliverySale("Ravi", "19KG", q[1], q[2], q[3])>>)
           e1 == IF 1 \in computed
                 THEN UpsertExpected({}, daily_stock_summary, s2.issues, Roster, 1)
                 ELSE {}
           e2 == IF 2 \in computed
                 THEN UpsertExpected(e1, daily_stock_summary, s2.issues, Roster, 2)
                 ELSE e1
           p1 == ApplyDeposits({}, 1, dp)
           p2 == ApplyDeposits(p1.dcd, 1, dp)
       IN /\ delivery_issues = s2.issues
          /\ delivery_expected_amount = e2
          /\ delivery_cash_deposit = p2.dcd
    /\ delivery_vehicle_empty_stock = {}
    /\ delivery_cash_balance =
         [b \in { x.id : x \in Roster } |->
            [opening_balance |-> 0, today_expected |-> 0, today_deposited |-> 0,
             closing_balance |-> 0, balance_status |-> "SETTLED"]]
    /\ result = FirstOutcome("record_cash_deposits", d0)
    /\ nops = 0

\* The deposits of Ravi alone.
DepositsOfRavi == { l \in CashDeposits : Len(l) = 1 /\ l[1].delivery_boy_name = "Ravi" }

InitDays ==
    \E d0 \in Dates, computed \in {{}, {1}} :
        /\ TwoDays(d0, <<MaxQty, 0, 0>>, computed, <<CashDeposit("Ravi", MaxQty, 0)>>)
        /\ balance_calls = NoCalls
        /\ create_calls = NoCreates

\* The operations scoped to a day, followed through the requests that commit.
NextDays ==
    \/ \E d \in Dates, l \in IOCLMovements : Storing(update_iocl_movements(d, l))
    \/ \E d \in Dates, l \in DeliverySales : Storing(record_delivery_sales(d, l))
    \/ \E d \in Dates, l \in OfficeSales : Storing(record_office_sale(d, l))
    \/ \E d \in Dates, l \in TVOutEntries : Storing(record_tv_out(d, l))
    \/ \E d \in Dates : Storing(calculate_closing_stock(d))
    \/ \E d \in Dates : Storing(calculate_expected_cash(d))
    \/ \E d \in Dates, l \in CashDeposits : Storing(record_cash_deposits(d, l))
    \/ \E d \in Dates : Storing(close_day(d))

SpecDays == InitDays /\ [][NextDays]_vars

\* ------------------------------------------------- concurrent balance rolls
\* The state of a two-day run with two update_delivery_boy_balances requests
\* received, each for one of the two dates, and none of their statements executed.
InitRace ==
    \E d0 \in Dates, dA \in Dates, dB \in Dates,
       q \in {<<MaxQty, 0, 0>>, <<0, MaxQty, 0>>},
       computed \in SUBSET {1, 2},
       dp \in {<<>>} \cup DepositsOfRavi :
        /\ {dA, dB} \subseteq {d0, d0 + 1}
        /\ TwoDays(d0, q, computed, dp)
        /\ balance_calls =
             [at |-> [s \in Callers |-> "7.1"],
              stock_date |-> [s \in Callers |-> IF s = "A" THEN dA ELSE dB],
              interleaved |-> FALSE, rolled |-> {}]
        /\ create_calls = NoCreates

\* The statements of the two calls, in every order the database may run them.
NextRace ==
    \/ \E s \in Callers : freeze_opening_balance(s)
    \/ \E s \in Callers : update_today_expected(s)
    \/ \E s \in Callers : update_today_deposited(s)
    \/ \E s \in Callers : calculate_closing_balance(s)
    \/ \E s \in Callers : update_balance_status(s)

SpecRace == InitRace /\ [][NextRace]_vars

\* -------------------------------------------------------- office sale runs
\* The roster as deployed, and a roster in which no Office delivery boy is configured.
Rosters == {Roster, { b \in Roster : b.name # "Office" }}

\* The state after create_stock_day(d0), initialize_opening_stock(d0) and
\* record_delivery_sales(d0, s), each committed, on the empty database; s names
\* Ravi or, where the roster has one, the Office delivery boy.
InitOffice ==
    \E d0 \in Dates, roster \in Rosters, b \in {"Ravi", "Office"},
       q \in {<<MaxQty, 0, 0>>, <<0, MaxQty, 0>>} :
        /\ delivery_boys = roster
        /\ stock_days = InsertStockDay(<<>>, d0)
        /\ daily_stock_summary = InsertZeroRows(<<>>, 1)
        /\ LET sl == ApplySales({}, 1, <<DeliverySale(b, "14.2KG", q[1], q[2], q[3])>>)
           IN /\ sl.error = "OK"
              /\ delivery_issues = sl.issues
        /\ delivery_expected_amount = {}
        /\ delivery_cash_deposit = {}
        /\ delivery_cash_balance =
             [x \in { y.id : y \in roster } |->
                [opening_balance |-> 0, today_expected |-> 0, today_deposited |-> 0,
                 closing_balance |-> 0, balance_status |-> "SETTLED"]]
        /\ delivery_vehicle_empty_stock = {}
        /\ result = FirstOutcome("record_delivery_sales", d0)
        /\ nops = 0
        /\ balance_calls = NoCalls
        /\ create_calls = NoCreates

\* The sales recorders and the close of the day, each request followed to its answer.
NextOffice ==
    \/ \E d \in Dates, l \in OfficeSales : Request(record_office_sale(d, l))
    \/ \E d \in Dates, l \in DeliverySales : Request(record_delivery_sales(d, l))
    \/ \E d \in Dates : Request(close_day(d))

SpecOffice == InitOffice /\ [][NextOffice]_vars
\* ------------------------------------------------------------ refund runs
\* The state after create_stock_day(d0), initialize_opening_stock(d0),
\* record_delivery_sales(d0, s) with the 14.2KG sale s of Ravi (a sale of no
\* cylinder included) and record_tv_out(d0, t) served once or twice, each committed,
\* on the empty database.
InitRefund ==
    \E d0 \in Dates, q \in {<<0, 0, 0>>, <<MaxQty, 0, 0>>}, twice \in BOOLEAN :
        /\ delivery_boys = Roster
        /\ stock_days = InsertStockDay(<<>>, d0)
        /\ LET t == <<TVOutEntry("Ravi", "14.2KG", MaxQty)>>
               tv1 == ApplyTvOut(InsertZeroRows(<<>>, 1), {}, 1, t)
               tv2 == IF twice THEN ApplyTvOut(tv1.dss, tv1.dves, 1, t) ELSE tv1
               sl == ApplySales({}, 1, <<DeliverySale("Ravi", "14.2KG", q[1], q[2], q[3])>>)
           IN /\ tv2.error = "OK" /\ sl.error = "OK"
              /\ daily_stock_summary = tv2.dss
              /\ delivery_vehicle_empty_stock = tv2.dves
              /\ delivery_issues = sl.issues
        /\ delivery_expected_amount = {}
        /\ delivery_cash_deposit = {}
        /\ delivery_cash_balance =
             [b \in { x.id : x \in Roster } |->
                [opening_balance |-> 0, today_expected |-> 0, today_deposited |-> 0,
                 closing_balance |-> 0, balance_status |-> "SETTLED"]]
        /\ result = FirstOutcome("record_tv_out", d0)
        /\ nops = 0
        /\ balance_calls = NoCalls
        /\ create_calls = NoCreates

\* The cash operations and the TV-out recorder, each request followed to its answer.
NextRefund ==
    \/ \E d \in Dates, l \in TVOutEntries : Request(record_tv_out(d, l))
    \/ \E d \in Dates : Request(calculate_expected_cash(d))
    \/ \E d \in Dates, l \in CashDeposits : Request(record_cash_deposits(d, l))
    \/ \E d \in Dates : Request(update_delivery_boy_balances(d))

SpecRefund == InitRefund /\ [][NextRefund]_vars
\* ----------------------------------------------------------- workflow runs
\* The closing balances that the days worked before the runs begin have left.
InitialBalance == [b \in { x.id : x \in Roster } |-> IF b = 1 THEN MaxQty ELSE 0]

\* The dates update_delivery_boy_balances has been served for.
Rolled == balance_calls.rolled

\* The state of a two-day run (a closed day d0 and the open day after it, each with a
\* FIELD sale of Ravi, expected cash calculated for the days in computed, the deposit
\* dp recorded twice for d0) in which no balance has been rolled for either day and
\* the balance rows are as an earlier roll left them.
InitWorkflow ==
    \E d0 \in Dates, q \in {<<MaxQty, 0, 0>>, <<0, MaxQty, 0>>},
       computed \in SUBSET {1, 2}, dp \in {<<>>} \cup DepositsOfRavi :
        /\ d0 + 1 \in Dates
        /\ delivery_boys = Roster
        /\ stock_days = InsertStockDay(UpdateClosed(InsertStockDay(<<>>, d0), 1), d0 + 1)
        /\ daily_stock_summary = CopyClosingAsOpening(InsertZeroRows(<<>>, 1), 2, 1)
        /\ LET s1 == ApplySales({}, 1, <<DeliverySale("Ravi", "14.2KG", q[1], q[2], q[3])>>)
               s2 == ApplySales(s1.issues, 2,
                                <<DeliverySale("Ravi", "19KG", q[1], q[2], q[3])>>)
               e1 == IF 1 \in computed
                     THEN UpsertExpected({}, daily_stock_summary, s2.issues, Roster, 1)
                     ELSE {}
               e2 == IF 2 \in computed
                     THEN UpsertExpected(e1, daily_stock_summary, s2.issues, Roster, 2)
                     ELSE e1
               p1 == ApplyDeposits({}, 1, dp)
               p2 == ApplyDeposits(p1.dcd, 1, dp)
           IN /\ delivery_issues = s2.issues
              /\ delivery_expected_amount = e2
              /\ delivery_cash_deposit = p2.dcd
        /\ delivery_vehicle_empty_stock = {}
        /\ delivery_cash_balance =
             [b \in { x.id : x \in Roster } |->
                RollBalance([opening_balance |-> 0, today_expected |-> 0,
                             today_deposited |-> 0, closing_balance |-> 0,
                             balance_status |-> "SETTLED"],
                            InitialBalance[b], 0)]
        /\ result = FirstOutcome("record_cash_deposits", d0)
        /\ nops = 0
        /\ balance_calls = NoCalls
        /\ create_calls = NoCreates

\* The daily workflow: the balances of a date are rolled once, after the dates
\* before it, and a date's expected cash and deposits are settled before its roll.
NextWorkflow ==
    \/ \E d \in Dates :
         d \notin Rolled /\ Storing(calculate_expected_cash(d))
    \/ \E d \in Dates, l \in CashDeposits :
         d \notin Rolled /\ Storing(record_cash_deposits(d, l))
    \/ \E d \in Dates :
         /\ d \notin Rolled
         /\ \A r \in Rolled : r < d
         /\ Storing(update_delivery_boy_balances(d))

SpecWorkflow == InitWorkflow /\ [][NextWorkflow]_vars
\* --------------------------------------------------------- continuity runs
\* The state after create_stock_day(d0), initialize_opening_stock(d0),
\* update_iocl_movements(d0, m), calculate_closing_stock(d0) when calculated,
\* close_day(d0), create_stock_day(d0 + 1) and initialize_opening_stock(d0 + 1), each
\* committed, on the empty database: close_day asks for no calculation before it.
InitContinuity ==
    \E d0 \in Dates, calculated \in BOOLEAN,
       m \in { l \in IOCLMovements : Len(l) = 1 /\ l[1].cylinder_type = "14.2KG" } :
        /\ d0 + 1 \in Dates
        /\ delivery_boys = Roster
        /\ stock_days = InsertStockDay(UpdateClosed(InsertStockDay(<<>>, d0), 1), d0 + 1)
        /\ LET mv == ApplyMovements(InsertZeroRows(<<>>, 1), 1, m)
               worked == IF calculated THEN DeriveClosing(mv.dss, {}, 1) ELSE mv.dss
           IN /\ mv.error = "OK"
              /\ daily_stock_summary = CopyClosingAsOpening(worked, 2, 1)
        /\ delivery_issues = {}
        /\ delivery_expected_amount = {}
        /\ delivery_cash_deposit = {}
        /\ delivery_cash_balance =
             [b \in { x.id : x \in Roster } |->
                [opening_balance |-> 0, today_expected |-> 0, today_deposited |-> 0,
                 closing_balance |-> 0, balance_status |-> "SETTLED"]]
        /\ delivery_vehicle_empty_stock = {}
        /\ result = FirstOutcome("initialize_opening_stock", d0 + 1)
        /\ nops = 0
        /\ balance_calls = NoCalls
        /\ create_calls = NoCreates

\* The stock operations of the days that follow, through the requests that commit.
NextContinuity ==
    \/ \E d \in Dates : Storing(create_stock_day(d))
    \/ \E d \in Dates : Storing(initialize_opening_stock(d))
    \/ \E d \in Dates, l \in IOCLMovements : Storing(update_iocl_movements(d, l))
    \/ \E d \in Dates : Storing(calculate_closing_stock(d))
    \/ \E d \in Dates : Storing(close_day(d))

SpecContinuity == InitContinuity /\ [][NextContinuity]_vars
\* --------------------------------------------------- concurrent day creation
\* The state with no day or one CLOSED day and two create_stock_day requests
\* received for different dates, none of their statements executed.
InitCreateRace ==
    \E prior \in {0} \cup Dates, dA \in Dates, dB \in Dates :
        /\ dA # dB
        /\ delivery_boys = Roster
        /\ stock_days = IF prior = 0 THEN <<>>
                        ELSE UpdateClosed(InsertStockDay(<<>>, prior), 1)
        /\ daily_stock_summary = <<>>
        /\ delivery_issues = {}
        /\ delivery_expected_amount = {}
        /\ delivery_cash_deposit = {}
        /\ delivery_cash_balance =
             [b \in { x.id : x \in Roster } |->
                [opening_balance |-> 0, today_expected |-> 0, today_deposited |-> 0,
                 closing_balance |-> 0, balance_status |-> "SETTLED"]]
        /\ delivery_vehicle_empty_stock = {}
        /\ result = IF prior = 0 THEN FirstOutcome("none", 0)
                    ELSE FirstOutcome("close_day", prior)
        /\ nops = 0
        /\ balance_calls = NoCalls
        /\ create_calls =
             [at |-> [s \in Callers |-> "existing"],
              stock_date |-> [s \in Callers |-> IF s = "A" THEN dA ELSE dB],
              interleaved |-> FALSE]

\* The statements of the two calls, in every order the database may run them.
NextCreateRace ==
    \/ \E s \in Callers : select_existing(s)
    \/ \E s \in Callers : select_prev_day(s)
    \/ \E s \in Callers : insert_stock_day(s)

SpecCreateRace == InitCreateRace /\ [][NextCreateRace]_vars
\* ------------------------------------------------------------- properties
\* The day of a date and the rows scoped to a day, read from the tables directly.
DaysOf(days, d) == { i \in DOMAIN days : days[i].stock_date = d }
OpenDays == { i \in DOMAIN stock_days : stock_days[i].status = "OPEN" }
ClosedDays == { i \in DOMAIN stock_days : stock_days[i].status = "CLOSED" }
LatestOf(days, ids) == { i \in ids : \A j \in ids : days[j].stock_date <= days[i].stock_date }
DayRows(i) ==
    <<SelectSeq(daily_stock_summary, LAMBDA r : r.stock_day_id = i),
      { r \in delivery_issues : r.stock_day_id = i },
      { r \in delivery_expected_amount : r.stock_day_id = i },
      { r \in delivery_cash_deposit : r.stock_day_id = i },
      { r \in delivery_vehicle_empty_stock : r.stock_day_id = i }>>
NewSummaryRows ==
    { daily_stock_summary'[k] : k \in (DOMAIN daily_stock_summary') \ (DOMAIN daily_stock_summary) }
RecorderOps ==
    {"initialize_opening_stock", "update_iocl_movements", "record_delivery_sales",
     "record_office_sale", "record_tv_out"}

\* C1: in every reachable state at most one StockDay has status OPEN, whatever the
\* order in which the dates of create_stock_day and close_day are supplied.
C1_AtMostOneOpenDay == Cardinality(OpenDays) <= 1

C3_DuplicateDateRejected ==
    [][ /\ (result'.op = "create_stock_day" /\ DaysOf(stock_days, result'.stock_date) # {}) =>
             (result'.error = "DayAlreadyExists" /\ UNCHANGED tables)
        /\ \A i, j \in DOMAIN stock_days' :
             stock_days'[i].stock_date = stock_days'[j].stock_date => i = j ]_vars

\* C3 witness: a create_stock_day rejected for the date of a CLOSED day.
C3_RejectedOnClosedDay ==
    /\ result.op = "create_stock_day" /\ result.error = "DayAlreadyExists"
    /\ \E i \in ClosedDays : stock_days[i].stock_date = result.stock_date

\* C4: a CLOSED day stays CLOSED; no step removes a day or changes its date, and the
\* only status change is OPEN to CLOSED by a close_day of that day's date.
C4_ClosedIsTerminal ==
    [][ \A i \in DOMAIN stock_days :
          /\ i \in DOMAIN stock_days'
          /\ stock_days'[i].stock_date = stock_days[i].stock_date
          /\ stock_days[i].status = "CLOSED" => stock_days'[i].status = "CLOSED"
          /\ stock_days'[i].status # stock_days[i].status =>
               /\ stock_days[i].status = "OPEN" /\ stock_days'[i].status = "CLOSED"
               /\ result'.op = "close_day" /\ result'.error = "OK"
               /\ result'.stock_date = stock_days[i].stock_date ]_vars

\* C4 witness: a close_day request answered for a day that is already CLOSED.
C4_CloseRequestedOnClosedDay ==
    /\ result.op = "close_day" /\ result.error # "OK"
    /\ \E i \in ClosedDays : stock_days[i].stock_date = result.stock_date

\* C5: close_day(d) fails with DayNotFound when d has no day and with a business
\* error when d is CLOSED, changing no table; otherwise it sets that day CLOSED and
\* changes no other day and no stock or cash row.
C5_CloseDayFrame ==
    [][ LET d == result'.stock_date
            mine == DaysOf(stock_days, d)
        IN result'.op = "close_day" =>
             IF mine = {}
             THEN result'.error = "DayNotFound" /\ UNCHANGED tables
             ELSE IF \E i \in mine : stock_days[i].status = "CLOSED"
             THEN result'.error = "BusinessException" /\ UNCHANGED tables
             ELSE /\ result'.error = "OK"
                  /\ DOMAIN stock_days' = DOMAIN stock_days
                  /\ \A i \in DOMAIN stock_days :
                       IF i \in mine
                       THEN /\ stock_days'[i].status = "CLOSED"
                            /\ stock_days'[i].stock_date = d
                       ELSE stock_days'[i] = stock_days[i]
                  /\ UNCHANGED <<daily_stock_summary, delivery_issues, delivery_expected_amount,
                                 delivery_cash_deposit, delivery_cash_balance,
                                 delivery_vehicle_empty_stock>> ]_vars

\* C5 witness: a day closed while another day is still OPEN.
C5_ClosedBesideOpenDay ==
    /\ result.op = "close_day" /\ result.error = "OK"
    /\ OpenDays # {}

\* C6: initialize_opening_stock, update_iocl_movements, record_delivery_sales,
\* record_office_sale and record_tv_out fail with DayNotFound on a date without a day
\* and with DayNotOpen on a CLOSED day, and change no table in either case.
C6_RecorderRequiresOpenDay ==
    [][ LET mine == DaysOf(stock_days, result'.stock_date)
        IN result'.op \in RecorderOps =>
             /\ mine = {} => (result'.error = "DayNotFound" /\ UNCHANGED tables)
             /\ (\E i \in mine : stock_days[i].status = "CLOSED") =>
                  (result'.error = "DayNotOpen" /\ UNCHANGED tables) ]_vars

\* C6 witness: a TV-out request refused on a CLOSED day.
C6_TvOutRefusedOnClosedDay ==
    /\ result.op = "record_tv_out" /\ result.error = "DayNotOpen"
    /\ \E i \in ClosedDays : stock_days[i].stock_date = result.stock_date

\* C7: once a day is CLOSED no request changes a row scoped to it: its
\* daily_stock_summary, delivery_issues, delivery_expected_amount,
\* delivery_cash_deposit and delivery_vehicle_empty_stock rows stay as they are.
C7_ClosedDayRowsFrozen ==
    [][ \A i \in ClosedDays : DayRows(i)' = DayRows(i) ]_vars

\* C8: initialize_opening_stock(D) with an earlier CLOSED day gives every cylinder
\* type of the most recent earlier CLOSED day a new row for D whose opening_filled,
\* opening_empty and defective_empty_vehicle are that day's closing_filled,
\* closing_empty and defective_empty_vehicle, and whose total_stock is their sum.
C8_CarryForward ==
    [][ LET d == result'.stock_date
            earlier == { i \in ClosedDays : stock_days[i].stock_date < d }
        IN (result'.op = "initialize_opening_stock" /\ result'.error = "OK" /\ earlier # {}) =>
             \A p \in LatestOf(stock_days, earlier), k \in DOMAIN daily_stock_summary :
               LET prev == daily_stock_summary[k] IN
               prev.stock_day_id = p =>
                 \E n \in NewSummaryRows :
                   /\ n.stock_day_id \in DaysOf(stock_days, d)
                   /\ n.cylinder_type_id = prev.cylinder_type_id
                   /\ n.opening_filled = prev.closing_filled
                   /\ n.opening_empty = prev.closing_empty
                   /\ n.defective_empty_vehicle = prev.defective_empty_vehicle
                   /\ n.total_stock = prev.closing_filled + prev.closing_empty
                                      + prev.defective_empty_vehicle ]_vars

\* C8 witness: a served initialize_opening_stock that carried filled stock and no
\* empties forward.
C8_CarriedFilledStock ==
    /\ nops > 0
    /\ result.op = "initialize_opening_stock" /\ result.error = "OK"
    /\ \E k \in DOMAIN daily_stock_summary :
         LET r == daily_stock_summary[k] IN
         /\ r.stock_day_id \in DaysOf(stock_days, result.stock_date)
         /\ r.opening_filled > 0 /\ r.opening_empty = 0
         /\ r.total_stock = r.opening_filled

\* C9: after calculate_closing_stock(d) succeeds every daily_stock_summary row of d has
\* closing_filled = opening_filled + item_receipt - (sales_regular + nc_qty + dbc_qty),
\* closing_empty = opening_empty + sales_regular + tv_out_qty - item_return and
\* total_stock = closing_filled + closing_empty + defective_empty_vehicle: TV-out is
\* no term of closing_filled, NC and DBC sales are no term of closing_empty.
C9_Conservation ==
    [][ (result'.op = "calculate_closing_stock" /\ result'.error = "OK") =>
          \A k \in DOMAIN daily_stock_summary' :
            LET r == daily_stock_summary'[k] IN
            r.stock_day_id \in DaysOf(stock_days, result'.stock_date) =>
              /\ r.closing_filled = r.opening_filled + r.item_receipt
                                    - (r.sales_regular + r.nc_qty + r.dbc_qty)
              /\ r.closing_empty = r.opening_empty + r.sales_regular + r.tv_out_qty
                                   - r.item_return
              /\ r.total_stock = r.closing_filled + r.closing_empty
                                 + r.defective_empty_vehicle ]_vars

\* C9 witness: a successful calculation over a row with opening stock and a TV-out.
C9_CalculatedWithOpeningAndTvOut ==
    /\ result.op = "calculate_closing_stock" /\ result.error = "OK"
    /\ \E k \in DOMAIN daily_stock_summary :
         LET r == daily_stock_summary[k] IN
         /\ r.stock_day_id \in DaysOf(stock_days, result.stock_date)
         /\ r.opening_filled > 0 /\ r.tv_out_qty > 0
         /\ r.closing_empty > r.opening_empty /\ r.closing_filled = r.opening_filled

\* C10: calculate_closing_stock(d) fails with NegativeStock exactly when some row of d
\* has a computed closing_filled < 0 or closing_empty < 0, and the error names the
\* cylinder type of every such row.
C10_NegativeStockNamesAll ==
    [][ LET bad == { k \in DOMAIN daily_stock_summary' :
                       LET r == daily_stock_summary'[k] IN
                       /\ r.stock_day_id \in DaysOf(stock_days, result'.stock_date)
                       /\ (r.closing_filled < 0 \/ r.closing_empty < 0) }
        IN (result'.op = "calculate_closing_stock" /\ result'.error # "DayNotFound") =>
             /\ result'.error = "NegativeStock" <=> bad # {}
             /\ result'.error = "NegativeStock" =>
                  { result'.detail[x] : x \in DOMAIN result'.detail }
                  = { (CHOOSE c \in cylinder_types :
                         c.id = daily_stock_summary'[k].cylinder_type_id).name : k \in bad } ]_vars

\* C10 witness: a NegativeStock error that names two cylinder types.
C10_TwoTypesNamed ==
    /\ result.op = "calculate_closing_stock" /\ result.error = "NegativeStock"
    /\ \E x, y \in DOMAIN result.detail : result.detail[x] # result.detail[y]

\* C11: a calculate_closing_stock(d) that fails with NegativeStock retains no figure
\* it wrote: the sales aggregates, closing_filled, closing_empty and total_stock of
\* every daily_stock_summary row are what they were before the call.
C11_NegativeStockRetainsNothing ==
    [][ (result'.op = "calculate_closing_stock" /\ result'.error = "NegativeStock") =>
          daily_stock_summary' = daily_stock_summary ]_vars

\* Every stored stock figure that is carried or closed is non-negative.
NonNegativeStock ==
    \A k \in DOMAIN daily_stock_summary :
      LET r == daily_stock_summary[k] IN
      /\ r.closing_filled >= 0 /\ r.closing_empty >= 0
      /\ r.opening_filled >= 0 /\ r.opening_empty >= 0

\* C12: stock never goes negative: no request takes a database whose closing and
\* opening figures are all non-negative to one with a negative closing_filled,
\* closing_empty, opening_filled or opening_empty.
C12_StockNeverNegative == [][ NonNegativeStock => NonNegativeStock' ]_vars

\* The price list row and the category of a cylinder type, read from the catalog.
PriceRow(ct_id) == CHOOSE p \in price_nc_components : p.cylinder_type_id = ct_id
IsDomestic(ct_id) == \E c \in cylinder_types : c.id = ct_id /\ c.category = "DOMESTIC"

\* The amount due for one recorded sale row by the pricing rules.
SaleAmount(x) ==
    LET p == PriceRow(x.cylinder_type_id)
        connection == p.deposit_amount + p.refill_amount + p.document_charge
                      + p.installation_charge
    IN x.regular_qty * p.refill_amount
       + x.nc_qty * (connection + (IF IsDomestic(x.cylinder_type_id)
                                   THEN p.regulator_charge ELSE 0))
       + x.dbc_qty * connection

\* The rows of a day and delivery boy recorded with source FIELD.
FieldRows(i, b) ==
    { x \in delivery_issues : /\ x.stock_day_id = i /\ x.delivery_boy_id = b
                              /\ x.delivery_source = "FIELD" }

\* C13: for every delivery boy with FIELD sales on the day, calculate_expected_cash
\* stores one expected amount that, before the TV-out refund is deducted, is the sum
\* over his sale rows of regular_qty * refill + nc_qty * (deposit + refill + document
\* + installation + regulator only for a DOMESTIC type) + dbc_qty * (deposit + refill
\* + document + installation).
C13_Pricing ==
    [][ (result'.op = "calculate_expected_cash" /\ result'.error = "OK") =>
          \A i \in DaysOf(stock_days, result'.stock_date), b \in DOMAIN delivery_cash_balance :
            FieldRows(i, b) # {} =>
              LET rows == { e \in delivery_expected_amount' :
                              e.stock_day_id = i /\ e.delivery_boy_id = b }
              IN /\ Cardinality(rows) = 1
                 /\ \A e \in rows :
                      e.expected_amount
                      + TvOutRefund(daily_stock_summary, delivery_boys, i, b)
                      = SumSet(FieldRows(i, b), [x \in FieldRows(i, b) |-> SaleAmount(x)]) ]_vars

\* C13 witness: an expected amount stored for a delivery boy with an NC sale of a
\* COMMERCIAL type and a sale of a DOMESTIC type.
C13_PricedCommercialConnection ==
    /\ result.op = "calculate_expected_cash" /\ result.error = "OK"
    /\ \E e \in delivery_expected_amount, x, y \in delivery_issues :
         /\ x.stock_day_id = e.stock_day_id /\ x.delivery_boy_id = e.delivery_boy_id
         /\ y.stock_day_id = e.stock_day_id /\ y.delivery_boy_id = e.delivery_boy_id
         /\ x.delivery_source = "FIELD" /\ y.delivery_source = "FIELD"
         /\ x.nc_qty > 0 /\ ~IsDomestic(x.cylinder_type_id)
         /\ IsDomestic(y.cylinder_type_id)
         /\ e.expected_amount > 0

\* The delivery issues that remain when every OFFICE row is taken away.
WithoutOffice(issues) == { x \in issues : x.delivery_source # "OFFICE" }

\* The amount a table holds for a day and delivery boy, 0 when it holds no row.
AmountOr0(rows, i, b, field) ==
    LET mine == { x \in rows : x.stock_day_id = i /\ x.delivery_boy_id = b }
    IN IF mine = {} THEN 0 ELSE (CHOOSE x \in mine : TRUE)[field]

\* C14: office sales never affect cash. calculate_expected_cash stores the rows it
\* would store had no OFFICE row ever been recorded; record_office_sale changes no
\* FIELD row, no TV-out quantity and no cash table; update_delivery_boy_balances
\* takes today_expected from the stored expected amounts alone.
C14_OfficeSalesNeverAffectCash ==
    [][ /\ (result'.op = "calculate_expected_cash" /\ result'.error = "OK") =>
             \A i \in DaysOf(stock_days, result'.stock_date) :
               delivery_expected_amount' =
                 UpsertExpected(delivery_expected_amount, daily_stock_summary,
                                WithoutOffice(delivery_issues), delivery_boys, i)
        /\ (result'.op = "record_office_sale" /\ result'.error = "OK") =>
             /\ WithoutOffice(delivery_issues') = WithoutOffice(delivery_issues)
             /\ UNCHANGED <<daily_stock_summary, delivery_expected_amount,
                            delivery_cash_deposit, delivery_cash_balance>>
        /\ (result'.op = "update_delivery_boy_balances" /\ result'.error = "OK") =>
             \A i \in DaysOf(stock_days, result'.stock_date),
                b \in DOMAIN delivery_cash_balance :
               delivery_cash_balance'[b].today_expected =
                 AmountOr0(delivery_expected_amount, i, b, "expected_amount") ]_vars

\* C14 witness: expected amounts stored for a day that holds an OFFICE row with a
\* sold quantity.
C14_CalculatedBesideOfficeSale ==
    /\ result.op = "calculate_expected_cash" /\ result.error = "OK"
    /\ \E x \in delivery_issues, e \in delivery_expected_amount :
         /\ x.delivery_source = "OFFICE"
         /\ x.regular_qty + x.nc_qty + x.dbc_qty > 0
         /\ x.stock_day_id = e.stock_day_id
         /\ x.stock_day_id \in DaysOf(stock_days, result.stock_date)

\* C15: calculate_expected_cash requested again for the same date right after it was
\* served, nothing stored in between, leaves the expected amounts as the first call
\* left them: one row per delivery boy and day, no amount doubled.
C15_ExpectedCashIdempotent ==
    [][ (/\ result'.op = "calculate_expected_cash" /\ result'.error = "OK"
         /\ result'.repeated /\ result.error = "OK") =>
          /\ delivery_expected_amount' = delivery_expected_amount
          /\ \A e1, e2 \in delivery_expected_amount' :
               (e1.stock_day_id = e2.stock_day_id
                /\ e1.delivery_boy_id = e2.delivery_boy_id) => e1 = e2 ]_vars

\* C15 witness: the second of two consecutive calculations, with an amount stored.
C15_CalculatedTwice ==
    /\ result.op = "calculate_expected_cash" /\ result.error = "OK"
    /\ result.repeated
    /\ \E e \in delivery_expected_amount : e.expected_amount > 0

\* C16: after record_cash_deposits succeeds, every row it wrote (a row of a listed
\* delivery boy, first submission or resubmission) is the only row of its day and
\* delivery boy and holds total_deposited = cash_amount + upi_amount.
C16_TotalDepositedIsCashPlusUpi ==
    [][ (result'.op = "record_cash_deposits" /\ result'.error = "OK") =>
          \A x \in delivery_cash_deposit' \ delivery_cash_deposit :
            /\ x.total_deposited = x.cash_amount + x.upi_amount
            /\ \A y \in delivery_cash_deposit' :
                 (y.stock_day_id = x.stock_day_id
                  /\ y.delivery_boy_id = x.delivery_boy_id) => y = x ]_vars

\* C17: the reconciliation view answered by record_cash_deposits has, for every
\* delivery boy with a deposit row on the day, a row with his stored amounts, his
\* expected amount of the day (0 when none is stored) and variance = total_deposited
\* - expected_amount; the grand totals are the sums of cash_amount, upi_amount and
\* total_deposited over the day's deposit rows.
C17_ReconciliationView ==
    [][ (result'.op = "record_cash_deposits" /\ result'.error = "OK") =>
          \A i \in DaysOf(stock_days, result'.stock_date) :
            LET rows == { x \in delivery_cash_deposit' : x.stock_day_id = i }
                view == result'.detail
            IN /\ \A x \in rows :
                    \E v \in view.deposits, b \in delivery_boys :
                      /\ b.id = x.delivery_boy_id /\ v.delivery_boy_name = b.name
                      /\ v.cash_amount = x.cash_amount /\ v.upi_amount = x.upi_amount
                      /\ v.total_deposited = x.total_deposited
                      /\ v.expected_amount =
                           AmountOr0(delivery_expected_amount, i, b.id, "expected_amount")
                      /\ v.variance = v.total_deposited - v.expected_amount
               /\ Cardinality(view.deposits) = Cardinality(rows)
               /\ view.total_cash = SumSet(rows, [x \in rows |-> x.cash_amount])
               /\ view.total_upi = SumSet(rows, [x \in rows |-> x.upi_amount])
               /\ view.total_deposited = SumSet(rows, [x \in rows |-> x.total_deposited]) ]_vars

\* C17 witness: a view with a row where an expected amount meets a smaller deposit.
C17_ViewWithShortfall ==
    /\ result.op = "record_cash_deposits" /\ result.error = "OK"
    /\ \E v \in result.detail.deposits :
         v.expected_amount > 0 /\ v.total_deposited > 0 /\ v.variance < 0

\* C18: after update_delivery_boy_balances every balance row has opening_balance =
\* its closing_balance before the call, today_expected = the delivery boy's expected
\* amount of the day or 0, today_deposited = his total_deposited of the day or 0,
\* closing_balance = opening_balance + today_expected - today_deposited, and status
\* SETTLED, PENDING or EXCESS as closing_balance is zero, positive or negative.
C18_BalanceRoll ==
    [][ (result'.op = "update_delivery_boy_balances" /\ result'.error = "OK") =>
          \A i \in DaysOf(stock_days, result'.stock_date),
             b \in DOMAIN delivery_cash_balance' :
            LET old == delivery_cash_balance[b]
                new == delivery_cash_balance'[b]
            IN /\ DOMAIN delivery_cash_balance' = DOMAIN delivery_cash_balance
               /\ new.opening_balance = old.closing_balance
               /\ new.today_expected =
                    AmountOr0(delivery_expected_amount, i, b, "expected_amount")
               /\ new.today_deposited =
                    AmountOr0(delivery_cash_deposit, i, b, "total_deposited")
               /\ new.closing_balance =
                    new.opening_balance + new.today_expected - new.today_deposited
               /\ (new.closing_balance = 0 => new.balance_status = "SETTLED")
               /\ (new.closing_balance > 0 => new.balance_status = "PENDING")
               /\ (new.closing_balance < 0 => new.balance_status = "EXCESS") ]_vars

\* C18 witness: balances updated with one delivery boy in EXCESS after a deposit.
C18_UpdatedWithExcess ==
    /\ result.op = "update_delivery_boy_balances" /\ result.error = "OK"
    /\ \E b \in DOMAIN delivery_cash_balance :
         /\ delivery_cash_balance[b].today_deposited > 0
         /\ delivery_cash_balance[b].closing_balance < 0
         /\ delivery_cash_balance[b].balance_status = "EXCESS"

\* C19: update_delivery_boy_balances requested again for the same date right after
\* it was served moves opening_balance to the closing_balance the first call
\* produced and adds expected minus deposited to closing_balance once more, so both
\* change for every delivery boy whose two amounts of the day differ.
C19_DoubleInvocationHazard ==
    [][ (/\ result'.op = "update_delivery_boy_balances" /\ result'.error = "OK"
         /\ result'.repeated /\ result.error = "OK") =>
          \A i \in DaysOf(stock_days, result'.stock_date),
             b \in DOMAIN delivery_cash_balance :
            LET old == delivery_cash_balance[b]
                new == delivery_cash_balance'[b]
                due == AmountOr0(delivery_expected_amount, i, b, "expected_amount")
                       - AmountOr0(delivery_cash_deposit, i, b, "total_deposited")
            IN /\ new.opening_balance = old.closing_balance
               /\ new.closing_balance = old.closing_balance + due
               /\ old.closing_balance = old.opening_balance + due
               /\ due # 0 => /\ new.opening_balance # old.opening_balance
                             /\ new.closing_balance # old.closing_balance ]_vars

\* C19 witness: the second of two consecutive updates, a delivery boy's amount owed
\* counted twice.
C19_UpdatedTwice ==
    /\ result.op = "update_delivery_boy_balances" /\ result.error = "OK"
    /\ result.repeated
    /\ \E b \in DOMAIN delivery_cash_balance :
         LET r == delivery_cash_balance[b] IN
         /\ r.today_expected # r.today_deposited
         /\ r.opening_balance # 0
         /\ r.closing_balance = 2 * r.opening_balance

\* The five recorders that take a list of entries.
ListOps ==
    {"update_iocl_movements", "record_delivery_sales", "record_office_sale",
     "record_tv_out", "record_cash_deposits"}

\* C20: a list recorder that fails on an entry (unknown or inactive cylinder type,
\* unknown delivery boy) leaves every table as it was before the request, whatever
\* it wrote for the entries before the failing one.
C20_FailureLeavesNoPartialWrite ==
    [][ (/\ result'.op \in ListOps
         /\ result'.error \in {"InvalidStockData", "DeliveryBoyNotFound"}) =>
          /\ stock_days' = stock_days
          /\ daily_stock_summary' = daily_stock_summary
          /\ delivery_issues' = delivery_issues
          /\ delivery_expected_amount' = delivery_expected_amount
          /\ delivery_cash_deposit' = delivery_cash_deposit
          /\ delivery_cash_balance' = delivery_cash_balance
          /\ delivery_vehicle_empty_stock' = delivery_vehicle_empty_stock ]_vars

\* C20 witness: a supplier-movement list refused at a later entry, after the writes
\* for its first entry had changed a row of the day.
C20_MovementsRefusedAfterAWrite ==
    /\ result.op = "update_iocl_movements"
    /\ result.error = "InvalidStockData"
    /\ result.detail = <<"discarded">>

\* The positions of a served list whose entry names the cylinder type with this id.
EntriesFor(l, ct_id) ==
    { j \in DOMAIN l : \E c \in cylinder_types : c.id = ct_id /\ c.name = l[j].cylinder_type }

\* The last of a non-empty set of positions.
Last(J) == CHOOSE j \in J : \A k \in J : k <= j

\* C21: after update_iocl_movements succeeds, the day's row of each listed cylinder
\* type holds the item_receipt and item_return of the last entry for that type and
\* is otherwise as before; every other row is unchanged; the same list served twice
\* in a row leaves the rows as the first time.
C21_MovementsOverwrite ==
    [][ (result'.op = "update_iocl_movements" /\ result'.error = "OK") =>
          LET l == result'.detail IN
          /\ DOMAIN daily_stock_summary' = DOMAIN daily_stock_summary
          /\ \A k \in DOMAIN daily_stock_summary :
               LET r == daily_stock_summary[k]
                   J == EntriesFor(l, r.cylinder_type_id)
               IN IF r.stock_day_id \in DaysOf(stock_days, result'.stock_date) /\ J # {}
                  THEN daily_stock_summary'[k] =
                         [r EXCEPT !.item_receipt = l[Last(J)].received,
                                   !.item_return = l[Last(J)].returned]
                  ELSE daily_stock_summary'[k] = r
          /\ (result'.repeated /\ result.error = "OK" /\ result.detail = l) =>
               daily_stock_summary' = daily_stock_summary ]_vars

\* C21 witness: the same movement list served twice in a row on a day with rows, the
\* listed row holding the received quantity once.
C21_MovementsServedTwice ==
    /\ result.op = "update_iocl_movements" /\ result.error = "OK"
    /\ result.repeated
    /\ \E k \in DOMAIN daily_stock_summary :
         LET r == daily_stock_summary[k] IN
         /\ r.stock_day_id \in DaysOf(stock_days, result.stock_date)
         /\ EntriesFor(result.detail, r.cylinder_type_id) # {}
         /\ result.detail[1].received > 0
         /\ r.item_receipt = result.detail[1].received

\* The positions of a served sales list whose entry names this delivery boy and type.
SalesFor(l, boy_id, ct_id) ==
    { j \in EntriesFor(l, ct_id) :
        \E b \in delivery_boys : b.id = boy_id /\ b.name = l[j].delivery_boy_name }

\* C22: after record_delivery_sales succeeds there is one FIELD row per day, delivery
\* boy and cylinder type; the row of a listed key holds the three quantities of the
\* last entry for it, never a sum; every row of a key not listed is unchanged.
C22_FieldSalesOverwrite ==
    [][ (result'.op = "record_delivery_sales" /\ result'.error = "OK") =>
          LET l == result'.detail
              listed(x) == /\ x.delivery_source = "FIELD"
                           /\ x.stock_day_id \in DaysOf(stock_days, result'.stock_date)
                           /\ SalesFor(l, x.delivery_boy_id, x.cylinder_type_id) # {}
          IN /\ \A x, y \in delivery_issues' :
                  (/\ x.stock_day_id = y.stock_day_id
                   /\ x.delivery_boy_id = y.delivery_boy_id
                   /\ x.cylinder_type_id = y.cylinder_type_id
                   /\ x.delivery_source = y.delivery_source) => x = y
             /\ \A i \in DaysOf(stock_days, result'.stock_date),
                   b \in delivery_boys, c \in cylinder_types :
                  LET J == SalesFor(l, b.id, c.id) IN
                  J # {} =>
                    [stock_day_id |-> i, delivery_boy_id |-> b.id, cylinder_type_id |-> c.id,
                     delivery_source |-> "FIELD",
                     regular_qty |-> l[Last(J)].regular_qty, nc_qty |-> l[Last(J)].nc_qty,
                     dbc_qty |-> l[Last(J)].dbc_qty] \in delivery_issues'
             /\ { x \in delivery_issues' : ~listed(x) }
                  = { x \in delivery_issues : ~listed(x) } ]_vars

\* C22 witness: field sales served twice in a row for a date and both times for the
\* same key, whose single row holds the quantities of one entry, not of two.
C22_FieldSalesServedTwice ==
    /\ result.op = "record_delivery_sales" /\ result.error = "OK"
    /\ result.repeated
    /\ \E x \in delivery_issues :
         /\ x.stock_day_id \in DaysOf(stock_days, result.stock_date)
         /\ SalesFor(result.detail, x.delivery_boy_id, x.cylinder_type_id) # {}
         /\ x.delivery_source = "FIELD"
         /\ x.regular_qty + x.nc_qty + x.dbc_qty = MaxQty
         /\ Cardinality(delivery_issues) = 1

\* The quantities of a served TV-out list at a set of positions, added up.
QuantityAt(l, J) == SumSet(J, [j \in J |-> l[j].quantity])

\* C23: after record_tv_out succeeds, tv_out_qty of the day's row of each listed
\* cylinder type has grown by the quantities listed for the type, and empty_qty of
\* the delivery boy's vehicle row for the day and type has grown by the quantities
\* listed for him and the type (from 0 when he had no row); nothing else changes.
C23_TvOutAccumulates ==
    [][ (result'.op = "record_tv_out" /\ result'.error = "OK") =>
          LET l == result'.detail
              held(rows, i, b, c) ==
                LET mine == { x \in rows : /\ x.stock_day_id = i /\ x.delivery_boy_id = b
                                           /\ x.cylinder_type_id = c }
                IN IF mine = {} THEN 0 ELSE (CHOOSE x \in mine : TRUE).empty_qty
          IN /\ DOMAIN daily_stock_summary' = DOMAIN daily_stock_summary
             /\ \A k \in DOMAIN daily_stock_summary :
                  LET r == daily_stock_summary[k] IN
                  daily_stock_summary'[k] =
                    IF r.stock_day_id \in DaysOf(stock_days, result'.stock_date)
                    THEN [r EXCEPT !.tv_out_qty =
                                     @ + QuantityAt(l, EntriesFor(l, r.cylinder_type_id))]
                    ELSE r
             /\ \A i \in DOMAIN stock_days, b \in delivery_boys, c \in cylinder_types :
                  held(delivery_vehicle_empty_stock', i, b.id, c.id) =
                    held(delivery_vehicle_empty_stock, i, b.id, c.id)
                    + (IF i \in DaysOf(stock_days, result'.stock_date)
                       THEN QuantityAt(l, SalesFor(l, b.id, c.id)) ELSE 0)
             /\ \A x \in delivery_vehicle_empty_stock' :
                  /\ \E b \in delivery_boys : b.id = x.delivery_boy_id
                  /\ \A y \in delivery_vehicle_empty_stock' :
                       (/\ x.stock_day_id = y.stock_day_id
                        /\ x.delivery_boy_id = y.delivery_boy_id
                        /\ x.cylinder_type_id = y.cylinder_type_id) => x = y ]_vars

\* C23 witness: the same TV-out entry served twice in a row on a day with rows, the
\* quantity counted twice on the summary row and on the vehicle row.
C23_TvOutServedTwice ==
    /\ result.op = "record_tv_out" /\ result.error = "OK"
    /\ result.repeated
    /\ \E k \in DOMAIN daily_stock_summary, x \in delivery_vehicle_empty_stock :
         LET r == daily_stock_summary[k] IN
         /\ r.stock_day_id \in DaysOf(stock_days, result.stock_date)
         /\ x.stock_day_id = r.stock_day_id /\ x.cylinder_type_id = r.cylinder_type_id
         /\ EntriesFor(result.detail, r.cylinder_type_id) # {}
         /\ r.tv_out_qty = 2 * result.detail[1].quantity
         /\ x.empty_qty = 2 * result.detail[1].quantity

\* C24: in every reachable state daily_stock_summary holds at most one row per
\* stock day and cylinder type.
C24_OneRowPerDayAndType ==
    \A k1, k2 \in DOMAIN daily_stock_summary :
      (/\ daily_stock_summary[k1].stock_day_id = daily_stock_summary[k2].stock_day_id
       /\ daily_stock_summary[k1].cylinder_type_id = daily_stock_summary[k2].cylinder_type_id)
        => k1 = k2

\* The place of an operation in the sequence of a day's steps.
StepOf(op) ==
    CASE op = "create_stock_day" -> 1
      [] op \in {"update_iocl_movements", "record_delivery_sales", "record_office_sale",
                 "record_tv_out"} -> 2
      [] op = "calculate_closing_stock" -> 3
      [] op = "calculate_expected_cash" -> 4
      [] op = "record_cash_deposits" -> 5
      [] op = "update_delivery_boy_balances" -> 6
      [] op = "close_day" -> 7
      [] OTHER -> 0

\* C25: the steps of a day run in sequence. Of two requests served one after the
\* other for the same date, the second does not take effect when it is an earlier
\* step than the first; and right after the day was created, no step beyond
\* calculate_closing_stock takes effect for it.
C25_StepsInSequence ==
    [][ (/\ result.error = "OK" /\ result'.error = "OK"
         /\ result'.stock_date = result.stock_date
         /\ StepOf(result.op) > 0 /\ StepOf(result'.op) > 0
         /\ nops' = nops + 1) =>
          /\ StepOf(result'.op) >= StepOf(result.op)
          /\ result.op = "create_stock_day" => StepOf(result'.op) <= 3 ]_vars

\* The days with FIELD sales recorded and no expected amount stored: the expected
\* cash of such a day has not been computed from its sales.
DaysNotComputed ==
    { i \in DOMAIN stock_days :
        /\ \E x \in delivery_issues : x.stock_day_id = i /\ x.delivery_source = "FIELD"
        /\ ~\E e \in delivery_expected_amount : e.stock_day_id = i }

\* C26: update_delivery_boy_balances for a date whose expected cash has not been
\* computed changes no delivery_cash_balance row.
C26_UpdateRequiresExpectedCash ==
    [][ (/\ result'.op = "update_delivery_boy_balances"
         /\ DaysOf(stock_days, result'.stock_date) \cap DaysNotComputed # {}) =>
          delivery_cash_balance' = delivery_cash_balance ]_vars

\* The balances before any roll: every delivery boy settled at zero.
SettledBalances ==
    [b \in { x.id : x \in delivery_boys } |->
       [opening_balance |-> 0, today_expected |-> 0, today_deposited |-> 0,
        closing_balance |-> 0, balance_status |-> "SETTLED"]]

\* The balances one request for a date leaves when served alone.
RolledFor(dcb, d) ==
    [b \in DOMAIN dcb |->
       RollBalance(dcb[b],
                   TodayExpected(delivery_expected_amount, DayByDate(stock_days, d), b),
                   TodayDeposited(delivery_cash_deposit, DayByDate(stock_days, d), b))]

\* What the two serial orders of the two calls leave, from settled balances.
SerialOutcomes ==
    LET dA == balance_calls.stock_date["A"]
        dB == balance_calls.stock_date["B"]
    IN { RolledFor(RolledFor(SettledBalances, dA), dB),
         RolledFor(RolledFor(SettledBalances, dB), dA) }

BothDone == \A s \in Callers : balance_calls.at[s] = "done"

DayOps ==
    ListOps \cup {"calculate_closing_stock", "calculate_expected_cash", "close_day"}

\* The rows of a table that belong to none of the given days.
RowsOutside(rows, days) == { x \in rows : x.stock_day_id \notin days }

DayRefund(i) ==
    LET K == { k \in DOMAIN daily_stock_summary :
                 /\ daily_stock_summary[k].stock_day_id = i
                 /\ daily_stock_summary[k].tv_out_qty > 0 }
    IN SumSet(K, [k \in K |-> daily_stock_summary[k].tv_out_qty
                              * PriceRow(daily_stock_summary[k].cylinder_type_id).deposit_amount])

\* The active delivery boys with FIELD sales on a day.
SellingBoys(i) ==
    { b.id : b \in { x \in delivery_boys : x.is_active /\ FieldRows(i, x.id) # {} } }

\* What the FIELD sales of a delivery boy on a day come to before any refund.
PreRefund(i, b) == SumSet(FieldRows(i, b), [x \in FieldRows(i, b) |-> SaleAmount(x)])

\* C29: calculate_expected_cash deducts the day's whole TV-out refund from every
\* active delivery boy with FIELD sales on the day, whoever handled the returns, so
\* that with n such delivery boys n times the refund is deducted in total.
C29_RefundDeductedFromEveryAgent ==
    [][ (result'.op = "calculate_expected_cash" /\ result'.error = "OK") =>
          \A i \in DaysOf(stock_days, result'.stock_date) :
            LET stored(b) == AmountOr0(delivery_expected_amount', i, b, "expected_amount")
            IN /\ \A b \in SellingBoys(i) : stored(b) = PreRefund(i, b) - DayRefund(i)
               /\ SumSet(SellingBoys(i), [b \in SellingBoys(i) |-> PreRefund(i, b) - stored(b)])
                    = Cardinality(SellingBoys(i)) * DayRefund(i) ]_vars

\* C29 witness: expected cash calculated for a day with a TV-out handled by one
\* delivery boy and FIELD sales of two, the second charged with the refund as well.
C29_RefundChargedToAnother ==
    /\ result.op = "calculate_expected_cash" /\ result.error = "OK"
    /\ \E i \in DaysOf(stock_days, result.stock_date), b \in DOMAIN delivery_cash_balance :
         /\ DayRefund(i) > 0
         /\ Cardinality(SellingBoys(i)) >= 2
         /\ b \in SellingBoys(i)
         /\ ~\E v \in delivery_vehicle_empty_stock :
               v.stock_day_id = i /\ v.delivery_boy_id = b
         /\ \E e \in delivery_expected_amount :
              /\ e.stock_day_id = i /\ e.delivery_boy_id = b
              /\ e.expected_amount = PreRefund(i, b) - DayRefund(i)

\* C30: calculate_closing_stock requested again for the same date right after it
\* was served, nothing recorded in between, leaves every daily_stock_summary row as
\* the first call left it and answers as the first call did, success or
\* NegativeStock with the same names.
C30_ClosingStockIdempotent ==
    [][ (/\ result'.op = "calculate_closing_stock" /\ result'.repeated
         /\ result.error \in Committed) =>
          /\ daily_stock_summary' = daily_stock_summary
          /\ result'.error = result.error
          /\ result'.detail = result.detail ]_vars

\* C30 witness: the second of two consecutive calculations on a day with a receipt,
\* whose closing_filled counts the receipt once.
C30_CalculatedTwice ==
    /\ result.op = "calculate_closing_stock" /\ result.error \in Committed
    /\ result.repeated
    /\ \E k \in DOMAIN daily_stock_summary :
         LET r == daily_stock_summary[k] IN
         /\ r.stock_day_id \in DaysOf(stock_days, result.stock_date)
         /\ r.item_receipt > 0
         /\ r.closing_filled = r.opening_filled + r.item_receipt
                               - (r.sales_regular + r.nc_qty + r.dbc_qty)

\* C31: after calculate_closing_stock(d), sales_regular, nc_qty and dbc_qty of every
\* daily_stock_summary row of d are the sums of regular_qty, nc_qty and dbc_qty over
\* all delivery_issues rows of d for the row's cylinder type, FIELD and OFFICE
\* together, and closing_filled is lowered by OFFICE quantities as by FIELD ones.
C31_SalesSumBothSources ==
    [][\A d \in Dates :
         (/\ result'.op = "calculate_closing_stock"
          /\ result'.stock_date = d
          /\ result'.error \in {"OK", "NegativeStock"})
         => \A i \in DaysOf(stock_days, d), k \in DOMAIN daily_stock_summary' :
              LET r == daily_stock_summary'[k]
                  di == { x \in delivery_issues :
                            x.stock_day_id = i /\ x.cylinder_type_id = r.cylinder_type_id }
              IN r.stock_day_id = i =>
                   /\ r.sales_regular = SumSet(di, [x \in di |-> x.regular_qty])
                   /\ r.nc_qty = SumSet(di, [x \in di |-> x.nc_qty])
                   /\ r.dbc_qty = SumSet(di, [x \in di |-> x.dbc_qty])
                   /\ r.closing_filled =
                        r.opening_filled + r.item_receipt
                        - SumSet(di, [x \in di |-> x.regular_qty + x.nc_qty + x.dbc_qty])
      ]_vars

\* C31 witness: closing stock was calculated for a day and cylinder type sold both in
\* the field and at the office, and the row carries the sum of the two.
C31_CalculatedWithBothSources ==
    /\ result.op = "calculate_closing_stock"
    /\ result.error \in {"OK", "NegativeStock"}
    /\ \E i \in DaysOf(stock_days, result.stock_date), k \in DOMAIN daily_stock_summary,
          f \in delivery_issues, o \in delivery_issues :
         /\ daily_stock_summary[k].stock_day_id = i
         /\ f.stock_day_id = i /\ o.stock_day_id = i
         /\ f.cylinder_type_id = daily_stock_summary[k].cylinder_type_id
         /\ o.cylinder_type_id = daily_stock_summary[k].cylinder_type_id
         /\ f.delivery_source = "FIELD" /\ o.delivery_source = "OFFICE"
         /\ f.regular_qty > 0 /\ o.regular_qty > 0
         /\ daily_stock_summary[k].sales_regular = f.regular_qty + o.regular_qty

\* C32: initialize_opening_stock(d) served on an OPEN day with no earlier CLOSED day
\* adds to daily_stock_summary one row of d for every active cylinder type and none
\* for an inactive type, every opening, movement, sales and closing quantity of
\* which is zero.
C32_FirstDayZeroRows ==
    [][\A d \in Dates :
         (/\ result'.op = "initialize_opening_stock"
          /\ result'.stock_date = d
          /\ result'.error = "OK"
          /\ ~\E j \in ClosedDays : stock_days[j].stock_date < d)
         => \A i \in DaysOf(stock_days, d) :
              LET active == { c.id : c \in { x \in cylinder_types : x.is_active } }
                  added == (DOMAIN daily_stock_summary') \ (DOMAIN daily_stock_summary)
              IN /\ Cardinality(added) = Cardinality(active)
                 /\ { daily_stock_summary'[k].cylinder_type_id : k \in added } = active
                 /\ \A k \in DOMAIN daily_stock_summary :
                      daily_stock_summary'[k] = daily_stock_summary[k]
                 /\ \A k \in added :
                      LET r == daily_stock_summary'[k]
                      IN /\ r.stock_day_id = i
                         /\ r.opening_filled = 0 /\ r.opening_empty = 0
                         /\ r.item_receipt = 0 /\ r.item_return = 0
                         /\ r.sales_regular = 0 /\ r.nc_qty = 0 /\ r.dbc_qty = 0
                         /\ r.tv_out_qty = 0
                         /\ r.closing_filled = 0 /\ r.closing_empty = 0
                         /\ r.defective_empty_vehicle = 0 /\ r.total_stock = 0
      ]_vars

\* C32 witness: opening stock was initialised for the only day there is, which is
\* OPEN, and the table holds a row for the 14.2KG and the 19KG type and none for 5KG.
C32_InitialisedFirstDay ==
    /\ result.op = "initialize_opening_stock"
    /\ result.error = "OK"
    /\ Len(stock_days) = 1
    /\ stock_days[1].status = "OPEN"
    /\ stock_days[1].stock_date = result.stock_date
    /\ { daily_stock_summary[k].cylinder_type_id : k \in DOMAIN daily_stock_summary } = {1, 2}

\* The errors of the classes deriving from BusinessException.
BusinessErrors ==
    {"BusinessException", "DayAlreadyExists", "DayNotOpen", "DayNotFound",
     "PreviousDayNotClosed", "InvalidStockData", "DeliveryBoyNotFound", "NegativeStock"}

\* C33: record_office_sale fails with a business error and writes nothing when no
\* Office delivery boy is configured; when it succeeds, every row it writes has
\* source OFFICE and belongs to the Office delivery boy, and no delivery_issues row
\* with source FIELD is changed.
C33_OfficeSaleNeedsOfficeAgent ==
    [][result'.op = "record_office_sale"
       => LET offices == { b \in delivery_boys : b.name = "Office" }
              field(S) == { x \in S : x.delivery_source = "FIELD" }
          IN /\ offices = {}
                => /\ result'.error \in BusinessErrors
                   /\ (\E i \in OpenDays : stock_days[i].stock_date = result'.stock_date)
                      => result'.error = "BusinessException"
                   /\ UNCHANGED tables
             /\ result'.error = "OK"
                => /\ \A x \in delivery_issues' \ delivery_issues :
                        /\ x.delivery_source = "OFFICE"
                        /\ \E b \in offices : b.id = x.delivery_boy_id
                   /\ field(delivery_issues') = field(delivery_issues)
      ]_vars

\* C33 witness (success): an office sale was recorded beside a FIELD row that the
\* Office delivery boy holds for the same day and cylinder type.
C33_OfficeSaleBesideFieldRow ==
    /\ result.op = "record_office_sale"
    /\ result.error = "OK"
    /\ \E f \in delivery_issues, o \in delivery_issues, b \in delivery_boys :
         /\ b.name = "Office"
         /\ f.delivery_boy_id = b.id /\ o.delivery_boy_id = b.id
         /\ f.stock_day_id = o.stock_day_id
         /\ f.cylinder_type_id = o.cylinder_type_id
         /\ f.delivery_source = "FIELD" /\ o.delivery_source = "OFFICE"

\* C33, the refusal: an office sale was requested for the OPEN day of a roster
\* without an Office delivery boy and was answered with the business error.
C33_RefusedWithoutOffice ==
    /\ result.op = "record_office_sale"
    /\ result.error = "BusinessException"
    /\ ~\E b \in delivery_boys : b.name = "Office"
    /\ \E i \in OpenDays : stock_days[i].stock_date = result.stock_date

\* C34: calculate_expected_cash served for an existing day does not fail, and for a
\* delivery boy whose TV-out refund exceeds what his FIELD sales come to it stores the
\* negative difference as it is; update_delivery_boy_balances then takes the negative
\* amount as today_expected and adds it to the closing balance.
C34_NegativeExpectedAmountKept ==
    [][\A i \in DOMAIN stock_days :
         LET stored(dea, b) == AmountOr0(dea, i, b, "expected_amount") IN
         /\ (result'.op = "calculate_expected_cash"
             /\ result'.stock_date = stock_days[i].stock_date)
            => /\ result'.error = "OK"
               /\ \A b \in SellingBoys(i) :
                    PreRefund(i, b) < DayRefund(i)
                    => /\ stored(delivery_expected_amount', b) < 0
                       /\ stored(delivery_expected_amount', b) = PreRefund(i, b) - DayRefund(i)
         /\ (result'.op = "update_delivery_boy_balances"
             /\ result'.stock_date = stock_days[i].stock_date)
            => /\ result'.error = "OK"
               /\ \A b \in DOMAIN delivery_cash_balance :
                    stored(delivery_expected_amount, b) < 0
                    => /\ delivery_cash_balance'[b].today_expected
                            = stored(delivery_expected_amount, b)
                       /\ delivery_cash_balance'[b].closing_balance
                            = delivery_cash_balance[b].closing_balance
                              + stored(delivery_expected_amount, b)
                              - AmountOr0(delivery_cash_deposit, i, b, "total_deposited")
      ]_vars

\* C34 witness: the balances were updated for a day on which a delivery boy's stored
\* expected amount is negative, and his closing balance is negative with it.
C34_NegativeAmountCarried ==
    /\ result.op = "update_delivery_boy_balances"
    /\ result.error = "OK"
    /\ \E x \in delivery_expected_amount :
         /\ x.expected_amount < 0
         /\ stock_days[x.stock_day_id].stock_date = result.stock_date
         /\ PreRefund(x.stock_day_id, x.delivery_boy_id) < DayRefund(x.stock_day_id)
         /\ delivery_cash_balance[x.delivery_boy_id].today_expected = x.expected_amount
         /\ delivery_cash_balance[x.delivery_boy_id].closing_balance < 0

\* What a delivery boy's expected amounts less his deposits come to over a set of dates.
DueOver(days, dea, dcd, dates, b) ==
    SumSet(dates,
           [d \in dates |->
              SumSet(DaysOf(days, d),
                     [i \in DaysOf(days, d) |->
                        AmountOr0(dea, i, b, "expected_amount")
                        - AmountOr0(dcd, i, b, "total_deposited")])])

\* C35: when the balances of each date are rolled once, in date order, after the
\* date's expected cash and deposits are settled, every delivery boy's closing_balance
\* is his initial balance plus the sum over the rolled dates of expected_amount less
\* total_deposited, and each roll opens with the closing_balance the roll before left.
C35_NoDoubleCounting ==
    [][/\ \A b \in DOMAIN delivery_cash_balance' :
            delivery_cash_balance'[b].closing_balance
              = InitialBalance[b]
                + DueOver(stock_days', delivery_expected_amount', delivery_cash_deposit',
                          balance_calls'.rolled, b)
       /\ result'.op = "update_delivery_boy_balances"
          => \A b \in DOMAIN delivery_cash_balance' :
               delivery_cash_balance'[b].opening_balance
                 = delivery_cash_balance[b].closing_balance
      ]_vars

\* C35 witness: the balances were rolled for both days, Ravi with an expected amount
\* on each and a deposit on the first, and his closing balance is the sum of it all.
C35_RolledTwoDays ==
    /\ result.op = "update_delivery_boy_balances"
    /\ Cardinality(balance_calls.rolled) = 2
    /\ \A i \in DOMAIN stock_days :
         AmountOr0(delivery_expected_amount, i, 1, "expected_amount") > 0
    /\ \E i \in DOMAIN stock_days :
         AmountOr0(delivery_cash_deposit, i, 1, "total_deposited") > 0
    /\ delivery_cash_balance[1].closing_balance
         = InitialBalance[1]
           + DueOver(stock_days, delivery_expected_amount, delivery_cash_deposit,
                     balance_calls.rolled, 1)
    /\ delivery_cash_balance[1].closing_balance # delivery_cash_balance[1].today_expected
                                                  - delivery_cash_balance[1].today_deposited

\* C36: in every reachable state, the opening_filled and opening_empty of every
\* daily_stock_summary row of a day are the closing_filled and closing_empty of the
\* rows of the same cylinder type on the most recent earlier CLOSED day, also after
\* calculate_closing_stock was served again for that earlier day.
C36_StockContinuity ==
    \A i \in DOMAIN stock_days :
      \A p \in LatestOf(stock_days,
                        { j \in ClosedDays : stock_days[j].stock_date < stock_days[i].stock_date }) :
        \A k \in DOMAIN daily_stock_summary, h \in DOMAIN daily_stock_summary :
          LET r == daily_stock_summary[k]
              prev == daily_stock_summary[h]
          IN (/\ r.stock_day_id = i /\ prev.stock_day_id = p
              /\ r.cylinder_type_id = prev.cylinder_type_id)
             => /\ r.opening_filled = prev.closing_filled
                /\ r.opening_empty = prev.closing_empty

\* What delivery_vehicle_empty_stock holds for a day and cylinder type, all delivery
\* boys together.
AuditQty(i, c) ==
    LET rows == { x \in delivery_vehicle_empty_stock :
                    x.stock_day_id = i /\ x.cylinder_type_id = c }
    IN SumSet(rows, [x \in rows |-> x.empty_qty])

\* Every TV-out entry a request may carry names a delivery boy of the roster.
EveryEntryNamesAnAgent ==
    \A l \in TVOutEntries : \A n \in DOMAIN l :
       \E b \in delivery_boys : b.name = l[n].delivery_boy_name

\* C37: in every reachable state the empty_qty of a day and cylinder type, summed
\* over the delivery boys, is at most the tv_out_qty of the day's
\* daily_stock_summary row for the type, and equal to it when every TV-out entry
\* recorded names an existing delivery boy; also when record_tv_out was served on an
\* OPEN day before its opening stock was initialised.
C37_TvOutAuditAgrees ==
    \A k \in DOMAIN daily_stock_summary :
       LET r == daily_stock_summary[k]
       IN /\ AuditQty(r.stock_day_id, r.cylinder_type_id) <= r.tv_out_qty
          /\ EveryEntryNamesAnAgent
             => AuditQty(r.stock_day_id, r.cylinder_type_id) = r.tv_out_qty

\* C38: when two create_stock_day calls for different dates have interleaved between
\* their checks and their inserts, no state with two OPEN stock days is reached.
C38_InterleavedCreatesKeepOneOpenDay ==
    (/\ create_calls.stock_date["A"] # create_calls.stock_date["B"]
     /\ create_calls.interleaved)
    => \A i \in DOMAIN stock_days, j \in DOMAIN stock_days :
         (stock_days[i].status = "OPEN" /\ stock_days[j].status = "OPEN") => i = j
====
